---- MODULE Spec2Model ----
(***************************************************************************)
(* Job-extraction pipeline of application-information-backend:             *)
(*   app/services/ai_agent.py   AIAgent._chunk_content,                    *)
(*                              AIAgent.extract_multiple_jobs              *)
(*   app/services/processor.py  JobProcessor.process_all_jobs,             *)
(*                              JobProcessor.process_jobs_incrementally,   *)
(*                              JobProcessor._process_single_entry,        *)
(*                              JobProcessor._process_single_entry_incremental *)
(*                              JobProcessor._parse_date,                  *)
(*                              JobProcessor._create_table_row             *)
(*   app/main.py                lifespan, _process_jobs                    *)
(* The specifications share the variables:                                 *)
(*   SpecChunk      the loop of _chunk_content on one text                 *)
(*   SpecChunkLive  the same, with the loop's steps taken fairly           *)
(*   SpecExtract    one call of extract_multiple_jobs on one source        *)
(*   SpecParseDate  one call of _parse_date                                *)
(*   SpecParseResponse  one response text turned into records              *)
(*   SpecApp        startup, /jobs runs and calls of the global agent      *)
(*   SpecNormalize  one job dict post-processed into a row, and again      *)
(*   SpecModes      one entry under the batch and the incremental method   *)
(*   Spec           a whole run over the entries, batch or incremental     *)
(***************************************************************************)
EXTENDS Integers, Sequences, FiniteSets, TLC

VARIABLES
    \* ---- _chunk_content ----
    content,        \* the text being chunked (sequence of characters)
    max_length,     \* the bound
    chunks,         \* list of segments produced so far
    current_pos,    \* scan position, 0-based as in the source
    chunk_pc,       \* "unused" | "entry" | "loop" | "returned"
    \* ---- extract_multiple_jobs ----
    enabled,        \* AIAgent.enabled
    n_chunks,       \* len(chunks) of the source being extracted
    chunk_idx,      \* loop index over the chunks
    all_jobs,       \* job dicts collected over the chunks
    jobs_info_list, \* the list returned to the caller
    failed,         \* which except branch the call took ("none" if none)
    last_kind,      \* what the dependency did on the last chunk it was given
    budget,         \* items (links, raw job records) the environment may still return
    \* ---- JobProcessor ----
    mode,           \* "batch" (process_all_jobs) | "incremental" | "unit"
    cur,            \* index of the entry being processed
    pc,             \* control location
    src,            \* source whose content is in extraction
    links,          \* links returned by the main-page scrape
    all_rows,       \* accumulator of _process_single_entry_incremental
    all_content,    \* content list of _process_single_entry
    pdf_i,          \* PDFs of the current entry already handled
    page_i,         \* job links of the current entry already handled
    ret,            \* rows returned by the per-entry method
    rows,           \* rows emitted so far (extended / yielded)
    \* ---- observation of the current entry ----
    fetch_failed,   \* the main-page scrape of the current entry raised
    n_llm,          \* llm.invoke calls made for the current entry
    n_pdf,          \* extract_pdf_content calls made for the current entry
    n_fetch,        \* linked-page scrapes made for the current entry
    \* ---- _parse_date and the post-processing of one job dict ----
    date_str,       \* argument of _parse_date
    parsed,         \* outcome of _parse_date, <<>> before the call
    raw_job,        \* one parsed element of the dependency's JSON, <<>> if unused
    found_on_arg,   \* found_on argument of _create_table_row
    normalized,     \* <<row>> built from raw_job, <<>> before
    renormalized,   \* <<row>> built from the fields of the row in normalized
    \* ---- one entry under both per-entry methods ----
    oracle,         \* what the scraper, the PDF extractor and the dependency answer
    batch_ret,      \* <<rows>> the batch method gave for the entry, <<>> before
    \* ---- the text of one response of the dependency ----
    response_text,  \* what llm.invoke returned, a sequence of tokens
    parse_result,   \* <<records>> extracted from it, <<>> before
    \* ---- the application: startup, /jobs runs, the agent's clock ----
    app_pc,         \* "unused" | "boot" | "idle"
    agent_inits,    \* calls of AIAgent.__init__ so far
    n_runs,         \* /jobs runs started so far
    ctor,           \* outcome of the last JobProcessor(...) call
    clock,          \* time.time()
    last_api_call_time  \* AIAgent.last_api_call_time of the agent in use, -1: not set

chunkVars == <<content, max_length, chunks, current_pos, chunk_pc>>
extractVars == <<enabled, n_chunks, chunk_idx, all_jobs, jobs_info_list, failed, last_kind, budget>>
procVars == <<mode, cur, pc, src, links, all_rows, all_content, pdf_i, page_i, ret, rows>>
obsVars == <<fetch_failed, n_llm, n_pdf, n_fetch>>
normVars == <<date_str, parsed, raw_job, found_on_arg, normalized, renormalized>>
modesVars == <<oracle, batch_ret>>
parseVars == <<response_text, parse_result>>
appVars == <<app_pc, agent_inits, n_runs, ctor, clock, last_api_call_time>>

vars == <<content, max_length, chunks, current_pos, chunk_pc,
          enabled, n_chunks, chunk_idx, all_jobs, jobs_info_list, failed, last_kind, budget,
          mode, cur, pc, src, links, all_rows, all_content, pdf_i, page_i, ret, rows,
          fetch_failed, n_llm, n_pdf, n_fetch,
          date_str, parsed, raw_job, found_on_arg, normalized, renormalized,
          oracle, batch_ret, response_text, parse_result,
          app_pc, agent_inits, n_runs, ctor, clock, last_api_call_time>>

\* ------------------------------------------------------------------------
\* Bounds
\* ------------------------------------------------------------------------
MaxLen == 5        \* longest text handed to _chunk_content
MaxBound == 3      \* largest max_length handed to _chunk_content
NumEntries == 2    \* entries read from the Excel file
MaxLinks == 3      \* links a scraped main page returns
MaxChunks == 2     \* chunks one source is split into
MaxJobsPerChunk == 2   \* elements of one JSON list of the dependency
MaxItems == 4      \* links and raw job records the environment returns over a whole run
MaxGroups == 3     \* digit groups of a date string handed to _parse_date
MaxClock == 2      \* ticks of time.time() after the process has started
MaxRuns == 2       \* /jobs requests
MaxInvocations == 2  \* invocations of the dependency before the last call of the agent starts

\* ------------------------------------------------------------------------
\* Program constants
\* ------------------------------------------------------------------------
MAX_CONTENT_PER_SOURCE == 10000    \* processor.py 17
MAX_CHUNK_LENGTH == 12000          \* ai_agent.py 75
MainPrefixLen == 19                \* len("Main page content:\n"), processor.py 294
IncrementalPdfCap == 2             \* processor.py 310
IncrementalPageCap == 2            \* processor.py 346
BatchPdfCap == 3                   \* processor.py 204
BatchPageCap == 3                  \* processor.py 224

\* ------------------------------------------------------------------------
\* Text helpers (Python str semantics, 0-based half-open ranges)
\* ------------------------------------------------------------------------
NL == "\n"
TextChars == {"x", ".", " ", NL}

RECURSIVE SeqsUpTo(_, _)
SeqsUpTo(S, n) ==
    IF n = 0 THEN {<<>>}
    ELSE LET shorter == SeqsUpTo(S, n - 1)
         IN  shorter \cup {Append(s, c) : s \in {t \in shorter : Len(t) = n - 1}, c \in S}

Min2(a, b) == IF a <= b THEN a ELSE b
MaxOf(S) == CHOOSE m \in S : \A k \in S : k <= m

\* content[a:b]
SliceOffByOne(s, a, b) == SubSeq(s, a + 1, Min2(b, Len(s)) - 1)
Slice(s, a, b) == SubSeq(s, a + 1, Min2(b, Len(s)))

\* content.rfind(sub, start, end)
Rfind(s, sub, start, end) ==
    LET e == Min2(end, Len(s))
        cands == {i \in start..(e - Len(sub)) : SubSeq(s, i + 1, i + Len(sub)) = sub}
    IN  IF cands = {} THEN -1 ELSE MaxOf(cands)

RECURSIVE Concat(_)
Concat(ss) == IF ss = <<>> THEN <<>> ELSE Head(ss) \o Concat(Tail(ss))

\* ------------------------------------------------------------------------
\* AIAgent._chunk_content
\* ------------------------------------------------------------------------
\* chunk_end of one loop iteration (ai_agent.py 205-217)
ChunkEndWide(c, pos, m) ==
    LET chunk_end == pos + m + 1
    IN  IF chunk_end < Len(c)
        THEN LET para_break == Rfind(c, <<NL, NL>>, pos, chunk_end)
             IN  IF para_break > pos THEN para_break
                 ELSE LET sentence_break == Rfind(c, <<".", " ">>, pos, chunk_end)
                      IN  IF sentence_break > pos THEN sentence_break + 1
                          ELSE chunk_end
        ELSE chunk_end
\* ChunkEnd that also cuts at a paragraph break found at the window start
ChunkEndAtStart(c, pos, m) ==
    LET chunk_end == pos + m
    IN  IF chunk_end < Len(c)
        THEN LET para_break == Rfind(c, <<NL, NL>>, pos, chunk_end)
             IN  IF para_break >= pos THEN para_break
                 ELSE LET sentence_break == Rfind(c, <<".", " ">>, pos, chunk_end)
                      IN  IF sentence_break > pos THEN sentence_break + 1
                          ELSE chunk_end
        ELSE chunk_end
ChunkEnd(c, pos, m) ==
    LET chunk_end == pos + m
    IN  IF chunk_end < Len(c)
        THEN LET para_break == Rfind(c, <<NL, NL>>, pos, chunk_end)
             IN  IF para_break > pos THEN para_break
                 ELSE LET sentence_break == Rfind(c, <<".", " ">>, pos, chunk_end)
                      IN  IF sentence_break > pos THEN sentence_break + 1
                          ELSE chunk_end
        ELSE chunk_end

\* ai_agent.py 196-201: small content is returned whole, else the loop starts
ChunkEntry ==
    /\ chunk_pc = "entry"
    /\ IF Len(content) <= max_length
       THEN /\ chunks' = <<content>>
            /\ chunk_pc' = "returned"
            /\ UNCHANGED current_pos
       ELSE /\ chunks' = <<>>
            /\ current_pos' = 0
            /\ chunk_pc' = "loop"
    /\ UNCHANGED <<content, max_length>>
    /\ UNCHANGED <<extractVars, procVars, obsVars, normVars, modesVars, parseVars, appVars>>

\* ai_agent.py 203-220: one iteration of the while loop
ChunkIterate ==
    /\ chunk_pc = "loop"
    /\ current_pos < Len(content)
    /\ LET chunk_end == ChunkEnd(content, current_pos, max_length)
       IN  /\ chunks' = Append(chunks, Slice(content, current_pos, chunk_end))
           /\ current_pos' = chunk_end
    /\ UNCHANGED <<content, max_length, chunk_pc>>
    /\ UNCHANGED <<extractVars, procVars, obsVars, normVars, modesVars, parseVars, appVars>>

\* ai_agent.py 203, 222: the loop condition fails, chunks is returned
ChunkReturn ==
    /\ chunk_pc = "loop"
    /\ current_pos >= Len(content)
    /\ chunk_pc' = "returned"
    /\ UNCHANGED <<content, max_length, chunks, current_pos>>
    /\ UNCHANGED <<extractVars, procVars, obsVars, normVars, modesVars, parseVars, appVars>>


\* ------------------------------------------------------------------------
\* Job dicts, responses of the extraction dependency, table rows
\* ------------------------------------------------------------------------
\* Optional values: None is <<>>, a present value v is <<v>>
None == <<>>
Some(v) == <<v>>

\* ------------------------------------------------------------------------
\* JobProcessor._parse_date
\* ------------------------------------------------------------------------
\* A value of a date field of a job dict: JSON null (or no key), a string (a
\* sequence of characters), a value of another JSON type (a number, a list),
\* or a datetime.date object (a date field of a TableRow that is read back).
NullValue == [kind |-> "null", chars |-> <<>>, date |-> <<>>]
StrValue(cs) == [kind |-> "str", chars |-> cs, date |-> <<>>]
OtherValue(truthy) == [kind |-> IF truthy THEN "other" ELSE "zero", chars |-> <<>>, date |-> <<>>]
DateObject(d) == [kind |-> "date", chars |-> <<>>, date |-> d]

\* Python truth value: None, "", 0 and [] are falsy
Truthy(v) ==
    CASE v.kind = "null" -> FALSE
      [] v.kind = "zero" -> FALSE
      [] v.kind = "str" -> v.chars # <<>>
      [] OTHER -> TRUE

Digits == {"0", "1", "2", "3", "4", "5", "6", "7", "8", "9"}
DigitVal(c) ==
    CASE c = "0" -> 0 [] c = "1" -> 1 [] c = "2" -> 2 [] c = "3" -> 3 [] c = "4" -> 4
      [] c = "5" -> 5 [] c = "6" -> 6 [] c = "7" -> 7 [] c = "8" -> 8 [] c = "9" -> 9
RECURSIVE NumVal(_)
NumVal(cs) == IF cs = <<>> THEN 0 ELSE 10 * NumVal(SubSeq(cs, 1, Len(cs) - 1)) + DigitVal(cs[Len(cs)])
AllDigits(cs) == \A i \in 1..Len(cs) : cs[i] \in Digits

\* the groups of characters between the occurrences of sep
RECURSIVE SplitOn(_, _)
SplitOn(cs, sep) ==
    IF \A i \in 1..Len(cs) : cs[i] # sep THEN <<cs>>
    ELSE LET k == CHOOSE i \in 1..Len(cs) : cs[i] = sep /\ \A j \in 1..(i - 1) : cs[j] # sep
         IN  <<SubSeq(cs, 1, k - 1)>> \o SplitOn(SubSeq(cs, k + 1, Len(cs)), sep)

\* the directives of strptime: %Y is four digits; %m is 1[0-2], 0[1-9] or [1-9];
\* %d is 3[01], [12]\d, 0[1-9], [1-9] or a blank and [1-9]
MatchesY(g) == Len(g) = 4 /\ AllDigits(g)
MatchesM(g) == /\ Len(g) \in {1, 2}
               /\ AllDigits(g)
               /\ NumVal(g) \in 1..12
MatchesD(g) == \/ /\ Len(g) \in {1, 2}
                  /\ AllDigits(g)
                  /\ NumVal(g) \in 1..31
               \/ /\ Len(g) = 2
                  /\ g[1] = " "
                  /\ g[2] \in Digits \ {"0"}
DayVal(g) == IF g[1] = " " THEN DigitVal(g[2]) ELSE NumVal(g)

IsLeap(y) == (y % 4 = 0 /\ y % 100 # 0) \/ y % 400 = 0
DaysIn(y, m) ==
    CASE m \in {4, 6, 9, 11} -> 30
      [] m = 2 -> IF IsLeap(y) THEN 29 ELSE 28
      [] OTHER -> 31
\* datetime(y, m, d) accepts the numbers
ValidDate(y, m, d) == y >= 1 /\ m \in 1..12 /\ d \in 1..DaysIn(y, m)

Returned(v) == [outcome |-> "returned", value |-> v]
Raised(e) == [outcome |-> "raised", value |-> e]

\* datetime.strptime(v, fmt).date() for the three formats of _parse_date:
\* TypeError for a value that is not a string, ValueError for a string that
\* does not match the format, has text left over or names no calendar date
StrPTime(v, fmt) ==
    IF v.kind # "str" THEN Raised("TypeError")
    ELSE LET sep == CASE fmt = "%Y-%m-%d" -> "-" [] fmt = "%d.%m.%Y" -> "." [] OTHER -> "/"
             g == SplitOn(v.chars, sep)
             yi == IF fmt = "%Y-%m-%d" THEN 1 ELSE 3
             di == IF fmt = "%Y-%m-%d" THEN 3 ELSE 1
         IN  IF /\ Len(g) = 3
                /\ MatchesY(g[yi])
                /\ MatchesM(g[2])
                /\ MatchesD(g[di])
                /\ ValidDate(NumVal(g[yi]), NumVal(g[2]), DayVal(g[di]))
             THEN Returned(<<NumVal(g[yi]), NumVal(g[2]), DayVal(g[di])>>)
             ELSE Raised("ValueError")

\* one try block of _parse_date: the date, or the next format, for the
\* exceptions the except clause names
Caught == {"ValueError", "TypeError"}
TryFormat(v, fmt, otherwise) ==
    LET r == StrPTime(v, fmt)
    IN  IF r.outcome = "returned" THEN Returned(Some(r.value))
        ELSE IF r.value \in Caught THEN otherwise
        ELSE r

\* processor.py 25-52
ParseDateIsoOnly(v) ==
    IF ~Truthy(v) THEN Returned(None)
    ELSE TryFormat(v, "%Y-%m-%d", Returned(None))
ParseDate(v) ==
    IF ~Truthy(v) THEN Returned(None)
    ELSE TryFormat(v, "%Y-%m-%d",
             TryFormat(v, "%d.%m.%Y",
                 TryFormat(v, "%d/%m/%Y", Returned(None))))

\* strings offered to _parse_date: up to MaxGroups groups of digits joined by
\* '-', '.' or '/', and text that is no date at all
DigitGroups ==
    {<<"2", "0", "2", "4">>, <<"2", "0", "2", "5">>, <<"3", "1">>, <<"2", "9">>,
     <<"1", "2">>, <<"0", "2">>, <<"2">>, <<" ", "5">>, <<"1", "3">>}
Separators == {"-", ".", "/"}
RECURSIVE DateStrings(_)
DateStrings(n) ==
    IF n = 1 THEN DigitGroups
    ELSE {s \o <<sep>> \o g : s \in DateStrings(n - 1), sep \in Separators, g \in DigitGroups}
ShortDateStrings == UNION {DateStrings(n) : n \in 1..(MaxGroups - 1)}
OtherInputs ==
    {NullValue, StrValue(<<>>), StrValue(<<"n", "o", "t", " ", "a", " ", "d", "a", "t", "e">>),
     OtherValue(TRUE), OtherValue(FALSE), DateObject(<<2025, 12, 31>>)}
      \cup {StrValue(g) : g \in DigitGroups}

\* date.isoformat(), the string a date field has in model_dump(mode='json')
DigitChar(k) ==
    CASE k = 0 -> "0" [] k = 1 -> "1" [] k = 2 -> "2" [] k = 3 -> "3" [] k = 4 -> "4"
      [] k = 5 -> "5" [] k = 6 -> "6" [] k = 7 -> "7" [] k = 8 -> "8" [] k = 9 -> "9"
Pad2(n) == <<DigitChar(n \div 10), DigitChar(n % 10)>>
Pad4(n) == Pad2(n \div 100) \o Pad2(n % 100)
IsoSpelling(d) == Pad4(d[1]) \o <<"-">> \o Pad2(d[2]) \o <<"-">> \o Pad2(d[3])

\* the call _parse_date(date_str)
ParseDateCall ==
    /\ parsed = <<>>
    /\ mode = "parse_date"
    /\ parsed' = <<ParseDate(date_str)>>
    /\ UNCHANGED <<date_str, raw_job, found_on_arg, normalized, renormalized>>
    /\ UNCHANGED <<chunkVars, extractVars, procVars, obsVars, modesVars, parseVars, appVars>>

\* str.lower() and str.strip() on the characters used in titles
LowerChar(ch) ==
    CASE ch = "A" -> "a" [] ch = "B" -> "b" [] ch = "J" -> "j" [] ch = "O" -> "o"
      [] ch = "S" -> "s" [] OTHER -> ch
Lower(s) == [i \in 1..Len(s) |-> LowerChar(s[i])]
IsSpace(ch) == ch \in {" ", NL}
RECURSIVE LStrip(_)
LStrip(s) == IF s # <<>> /\ IsSpace(Head(s)) THEN LStrip(Tail(s)) ELSE s
RECURSIVE RStrip(_)
RStrip(s) == IF s # <<>> /\ IsSpace(s[Len(s)]) THEN RStrip(SubSeq(s, 1, Len(s) - 1)) ELSE s
Strip(s) == RStrip(LStrip(s))

TitleA == <<"A">>           \* e.g. 'Sachbearbeiter'
TitleA2 == <<"a", " ">>     \* the same title in another case, with a trailing blank
TitleB == <<"B">>           \* e.g. 'Sekretaer'

\* foundOn values: the source URL (website_to_jobs, which extract_multiple_jobs
\* takes for source_url), another URL, a text label with the index of the link,
\* or null
SourceUrl == <<"http", 0>>
OtherUrl == <<"http", 1>>
NoFoundOn == <<"null", 0>>
MainLabel == <<"Main page", 0>>
PdfLabel(k) == <<"PDF: ", k>>
PageLabel(k) == <<"Page: ", k>>

LlmComment == "comment of the dependency"

\* One element of the JSON list the dependency returns. typed = FALSE stands for
\* an element one of whose scalar fields (salary, period, ...) holds a JSON
\* object or array, which TableRow rejects.
RawJob(h, n, t) == [hasJob |-> h, name |-> n, comments |-> LlmComment,
                    foundOn |-> NoFoundOn, typed |-> t,
                    homeOfficeOption |-> None, applicationDate |-> NullValue,
                    occupyStart |-> NullValue]

\* date strings the dependency writes into applicationDate and occupyStart
Date_2025_12_31_Iso == StrValue(<<"2", "0", "2", "5", "-", "1", "2", "-", "3", "1">>)
Date_2025_12_31_Dotted == StrValue(<<"3", "1", ".", "1", "2", ".", "2", "0", "2", "5">>)
Date_AbSofort == StrValue(<<"a", "b", " ", "s", "o", "f", "o", "r", "t">>)

\* raw records offered to a whole run (narrow) and to one extraction call (wide)
RunRawJobs ==
    {[RawJob(TRUE, Some(TitleA), TRUE) EXCEPT !.applicationDate = Date_2025_12_31_Dotted,
                                              !.occupyStart = Date_2025_12_31_Iso],
     [RawJob(TRUE, Some(TitleB), TRUE) EXCEPT !.homeOfficeOption = Some(TRUE),
                                              !.foundOn = OtherUrl,
                                              !.applicationDate = Date_AbSofort],
     RawJob(FALSE, None, TRUE),
     [RawJob(TRUE, Some(TitleA), FALSE) EXCEPT !.homeOfficeOption = Some(FALSE)]}
UnitRawJobs ==
    {RawJob(TRUE, n, TRUE) : n \in {Some(TitleA), Some(TitleA2), Some(TitleB), Some(<<>>), None}}
      \cup {RawJob(FALSE, None, TRUE), RawJob(FALSE, Some(TitleA), TRUE)}

\* What llm.invoke does on one chunk:
\*   raise_conn      raises one of ConnectionErrors (ai_agent.py 19-37)
\*   raise_other     raises any other Exception
\*   not_json        returns text json.loads rejects
\*   json_scalar     returns JSON null, a number or a boolean
\*   json_nonobj     returns a JSON list with an element that is not an object,
\*                   or a non-empty JSON string
\*   json_empty_str  returns the JSON string ""
\*   json_object     returns one JSON object
\*   json_array      returns a JSON list of objects
FailKinds == {"raise_conn", "raise_other", "not_json", "json_scalar", "json_nonobj"}
Response(k, js) == [kind |-> k, jobs |-> js]
Responses(raw, maxJobs) ==
    {Response(k, <<>>) : k \in FailKinds \cup {"json_empty_str"}}
      \cup {Response("json_object", <<j>>) : j \in raw}
      \cup {Response("json_array", js) : js \in SeqsUpTo(raw, maxJobs)}

\* the except branch a response ends in (ai_agent.py 347-368, 413-431)
ExceptBranch(resp) ==
    CASE resp.kind = "raise_conn" -> "conn"
      [] resp.kind = "not_json" -> "parse"
      [] resp.kind \in {"raise_other", "json_scalar", "json_nonobj"} -> "other"
      [] OTHER -> "none"

Sentinel(c) == [hasJob |-> FALSE, name |-> None, comments |-> c,
                foundOn |-> NoFoundOn, typed |-> TRUE,
                homeOfficeOption |-> None, applicationDate |-> NullValue,
                occupyStart |-> NullValue]
DisabledSentinel == Sentinel("AI analysis disabled")
NoJobsSentinel == Sentinel("Keine passenden Verwaltungsstellen gefunden")
ErrorSentinel(branch) ==
    CASE branch = "conn" -> Sentinel("Cannot load Hugging Face models: <e>")
      [] branch = "parse" -> Sentinel("Error parsing AI response: <e>")
      [] OTHER -> Sentinel("Error analyzing content: <e>")
ErrorComments == {"Cannot load Hugging Face models: <e>", "Error parsing AI response: <e>",
                  "Error analyzing content: <e>"}

IsJob(j) == j.hasJob

\* ai_agent.py 367-377: post-processing of one parsed job
PostProcessKeepNull(job) ==
    IF job.hasJob
    THEN [job EXCEPT !.foundOn = IF @[1] # "http" THEN SourceUrl ELSE @]
    ELSE job
PostProcess(job) ==
    IF job.hasJob
    THEN [job EXCEPT !.homeOfficeOption = IF @ = None THEN Some(FALSE) ELSE @,
                     !.foundOn = IF @[1] # "http" THEN SourceUrl ELSE @]
    ELSE job

\* ai_agent.py 361-384: the jobs one well-formed response adds to all_jobs
ChunkJobs(resp, idx) ==
    LET result == [i \in 1..Len(resp.jobs) |-> PostProcess(resp.jobs[i])]
    IN  IF idx > 0 THEN SelectSeq(result, IsJob) ELSE result

\* JobName without .lower()
JobNameNoLower(job) == Strip(IF job.name = None THEN <<>> ELSE job.name[1])
\* ai_agent.py 393
JobName(job) == Strip(Lower(IF job.name = None THEN <<>> ELSE job.name[1]))

\* ai_agent.py 389-401: keep the first job of every non-empty name, and every
\* job without a name
RECURSIVE Dedup(_, _)
Dedup(jobs, seen_names) ==
    IF jobs = <<>> THEN <<>>
    ELSE LET job == Head(jobs)
             job_name == JobName(job)
         IN  IF job_name # <<>> /\ job_name \notin seen_names
             THEN <<job>> \o Dedup(Tail(jobs), seen_names \cup {job_name})
             ELSE IF job_name = <<>>
                  THEN <<job>> \o Dedup(Tail(jobs), seen_names)
                  ELSE Dedup(Tail(jobs), seen_names)

\* ai_agent.py 386-411: what the call returns after the last chunk
DedupedJobsUnfiltered(jobs) == Dedup(jobs, {})
DedupedJobs(jobs) == Dedup(SelectSeq(jobs, IsJob), {})
FinalJobsNoSentinel(jobs) == DedupedJobs(jobs)
FinalJobs(jobs) ==
    LET deduplicated_jobs == DedupedJobs(jobs)
    IN  IF deduplicated_jobs = <<>> THEN <<NoJobsSentinel>> ELSE deduplicated_jobs


\* ------------------------------------------------------------------------
\* The text of one response (ai_agent.py 347-365)
\* ------------------------------------------------------------------------
\* A response is a sequence of tokens: a run of three backticks, the word that
\* follows it on the same line, a line break, prose, and the JSON tokens
\* [ ] , and whole objects.
Fence == "<3 backticks>"
JsonObjects == {"{A}", "{B}", "{N}"}
ObjectJob(tok) ==
    CASE tok = "{A}" -> RawJob(TRUE, Some(TitleA), TRUE)
      [] tok = "{B}" -> RawJob(TRUE, Some(TitleB), TRUE)
      [] OTHER -> RawJob(FALSE, None, TRUE)

\* json.loads and the isinstance(result, dict) test (ai_agent.py 361-365): white
\* space between the tokens is skipped, one object or a list of objects is
\* accepted, anything else raises JSONDecodeError
JsonLoads(toks) ==
    LET NotSpace(x) == ~IsSpace(x)
        t == SelectSeq(toks, NotSpace)
        inner == SubSeq(t, 2, Len(t) - 1)
    IN  IF Len(t) = 1 /\ t[1] \in JsonObjects
        THEN Response("json_object", <<ObjectJob(t[1])>>)
        ELSE IF /\ Len(t) >= 2 /\ t[1] = "[" /\ t[Len(t)] = "]"
                /\ inner # <<>> => Len(inner) % 2 = 1
                /\ \A i \in 1..Len(inner) :
                      IF i % 2 = 1 THEN inner[i] \in JsonObjects ELSE inner[i] = ","
             THEN Response("json_array",
                           [i \in 1..((Len(inner) + 1) \div 2) |-> ObjectJob(inner[2 * i - 1])])
             ELSE Response("not_json", <<>>)

\* ai_agent.py 355-359: the text between the first fence followed by json (or
\* else the first fence) and the fence after it
FencedContent(text) ==
    LET json_at == {i \in 1..(Len(text) - 1) :
                        text[i] = Fence /\ text[i + 1] = "json"}
        first == CHOOSE i \in json_at : \A j \in json_at : i <= j
    IN  IF json_at # {}
        THEN Strip(SplitOn(SubSeq(text, first + 2, Len(text)), Fence)[1])
        ELSE IF \E i \in 1..Len(text) : text[i] = Fence
             THEN Strip(SplitOn(SplitOn(text, Fence)[2], Fence)[1])
             ELSE text

\* ai_agent.py 347-411 for a source of one chunk: the records of a response
ResponseRecords(response) ==
    LET resp == JsonLoads(FencedContent(Strip(response)))
    IN  IF ExceptBranch(resp) # "none"
        THEN <<ErrorSentinel(ExceptBranch(resp))>>
        ELSE FinalJobs(ChunkJobs(resp, 0))

\* what the dependency answers: a payload (JSON or not), bare or between
\* fences; the opening fence is bare or carries the word json in either case,
\* the closing fence can be missing, prose can precede or follow
Payloads ==
    {<<o>> : o \in JsonObjects}
      \cup {<<"[", o, "]">> : o \in JsonObjects}
      \cup {<<"[", "{A}", ",", "{B}", "]">>, <<"[", "]">>, <<"prose">>, <<"[", "{A}">>}
FenceOpens == {<<Fence, NL>>, <<Fence, "json", NL>>, <<Fence, "JSON", NL>>}
Fenced(pre, open, payload, close, post) == pre \o open \o payload \o close \o post
Prefaces == {<<>>, <<"prose", NL>>}
FenceCloses == {<<>>, <<NL, Fence>>, <<NL, Fence, NL, "prose">>}

\* ai_agent.py 347-411: one response is turned into records
ParseResponseCall ==
    /\ mode = "parse_response"
    /\ parse_result = <<>>
    /\ parse_result' = <<ResponseRecords(response_text)>>
    /\ UNCHANGED <<response_text, appVars>>
    /\ UNCHANGED <<chunkVars, extractVars, procVars, obsVars, normVars, modesVars>>

\* ------------------------------------------------------------------------
\* AIAgent.extract_multiple_jobs
\* ------------------------------------------------------------------------
\* The number of chunks of a source is len(_chunk_content(page_content)).  The
\* main page of the incremental method is at most MainPrefixLen +
\* MAX_CONTENT_PER_SOURCE characters long (processor.py 294), which is within
\* MAX_CHUNK_LENGTH, so it is always one chunk; the label of a PDF or a page and
\* the combined content of the batch method (cut at 15000) can be longer.
ChunkCounts(s) ==
    IF s = "main" /\ MainPrefixLen + MAX_CONTENT_PER_SOURCE <= MAX_CHUNK_LENGTH
    THEN {1} ELSE 1..MaxChunks

RawJobsOf(m) == IF m = "unit" THEN UnitRawJobs ELSE RunRawJobs

\* ExtractEnter without the early return of a disabled agent
ExtractEnterNoCheck ==
    /\ pc = "extract_enter"
    /\ failed' = "none"
    /\ last_kind' = "none"
    /\ chunk_idx' = 0
    /\ all_jobs' = <<>>
    /\ IF FALSE
       THEN /\ jobs_info_list' = <<DisabledSentinel>>
            /\ n_chunks' = 0
            /\ pc' = "extract_done"
       ELSE /\ \E n \in ChunkCounts(src) : n_chunks' = n
            /\ jobs_info_list' = <<>>
            /\ pc' = "extract_loop"
    /\ UNCHANGED <<enabled, budget, mode, cur, src, links, all_rows, all_content,
                   pdf_i, page_i, ret, rows>>
    /\ UNCHANGED <<chunkVars, modesVars, parseVars, appVars, normVars, obsVars>>

\* ai_agent.py 239-252: disabled agent, or chunking and the empty all_jobs
ExtractEnter ==
    /\ pc = "extract_enter"
    /\ failed' = "none"
    /\ last_kind' = "none"
    /\ chunk_idx' = 0
    /\ all_jobs' = <<>>
    /\ IF ~enabled
       THEN /\ jobs_info_list' = <<DisabledSentinel>>
            /\ n_chunks' = 0
            /\ pc' = "extract_done"
       ELSE /\ \E n \in ChunkCounts(src) : n_chunks' = n
            /\ jobs_info_list' = <<>>
            /\ pc' = "extract_loop"
    /\ UNCHANGED <<enabled, budget, mode, cur, src, links, all_rows, all_content,
                   pdf_i, page_i, ret, rows>>
    /\ UNCHANGED <<chunkVars, modesVars, parseVars, appVars, normVars, obsVars>>

\* ai_agent.py 263-384 and 413-431: one iteration of the loop over the chunks;
\* an exception of any iteration leaves the loop and returns one sentinel
ExtractChunk ==
    /\ pc = "extract_loop"
    /\ chunk_idx < n_chunks
    /\ \E resp \in Responses(RawJobsOf(mode), MaxJobsPerChunk) :
          /\ Len(resp.jobs) <= budget
          /\ budget' = budget - Len(resp.jobs)
          /\ n_llm' = n_llm + 1
          /\ last_kind' = resp.kind
          /\ IF ExceptBranch(resp) # "none"
             THEN /\ failed' = ExceptBranch(resp)
                  /\ jobs_info_list' = <<ErrorSentinel(ExceptBranch(resp))>>
                  /\ pc' = "extract_done"
                  /\ UNCHANGED <<all_jobs, chunk_idx>>
             ELSE /\ all_jobs' = all_jobs \o ChunkJobs(resp, chunk_idx)
                  /\ chunk_idx' = chunk_idx + 1
                  /\ UNCHANGED <<failed, jobs_info_list, pc>>
    /\ UNCHANGED <<enabled, n_chunks, mode, cur, src, links, all_rows, all_content,
                   pdf_i, page_i, ret, rows>>
    /\ UNCHANGED <<chunkVars, modesVars, parseVars, appVars, normVars, fetch_failed, n_pdf, n_fetch>>

\* ai_agent.py 386-411: filter, deduplicate, sentinel if nothing is left
ExtractFinish ==
    /\ pc = "extract_loop"
    /\ chunk_idx = n_chunks
    /\ all_jobs' = DedupedJobs(all_jobs)
    /\ jobs_info_list' = FinalJobs(all_jobs)
    /\ pc' = "extract_done"
    /\ UNCHANGED <<enabled, n_chunks, chunk_idx, failed, last_kind, budget, mode, cur, src,
                   links, all_rows, all_content, pdf_i, page_i, ret, rows>>
    /\ UNCHANGED <<chunkVars, modesVars, parseVars, appVars, normVars, obsVars>>


\* ------------------------------------------------------------------------
\* Links, table rows
\* ------------------------------------------------------------------------
\* ExtractedLink: link_type as set by WebScraper._categorize_link, the anchor
\* text (optional) and the URL
Link(t, title, url) == [link_type |-> t, title |-> title, url |-> url]
LinkKinds ==
    {Link("pdf", Some(<<"J", "o", "b", "s">>), <<"/", "a", ".", "p", "d", "f">>),
     Link("webpage", Some(<<"J", "O", "B", "S">>), <<"/", "x">>),
     Link("webpage", None, <<"/", "S", "t", "e", "l", "l", "e">>),
     Link("webpage", Some(<<"x">>), <<"/", "x">>)}

\* processor.py 211, 336
job_related_keywords ==
    {<<"j", "o", "b">>, <<"c", "a", "r", "e", "e", "r">>,
     <<"p", "o", "s", "i", "t", "i", "o", "n">>, <<"v", "a", "c", "a", "n", "c", "y">>,
     <<"o", "p", "e", "n", "i", "n", "g">>, <<"s", "t", "e", "l", "l", "e">>,
     <<"k", "a", "r", "r", "i", "e", "r", "e">>}
\* sub in s
Contains(s, sub) ==
    \E i \in 0..(Len(s) - Len(sub)) : SubSeq(s, i + 1, i + Len(sub)) = sub
\* processor.py 216-219, 341-343, without the two .lower()
JobRelatedCaseSensitive(l) ==
    LET link_text == IF l.title = None THEN <<>> ELSE l.title[1]
        link_url == l.url
    IN  \E keyword \in job_related_keywords :
            Contains(link_text, keyword) \/ Contains(link_url, keyword)
\* processor.py 216-219, 341-343
JobRelated(l) ==
    LET link_text == Lower(IF l.title = None THEN <<>> ELSE l.title[1])
        link_url == Lower(l.url)
    IN  \E keyword \in job_related_keywords :
            Contains(link_text, keyword) \/ Contains(link_url, keyword)

Take(seq, n) == SubSeq(seq, 1, Min2(n, Len(seq)))
IsPdf(l) == l.link_type = "pdf"
IsJobLink(l) == l.link_type = "webpage" /\ JobRelated(l)

\* PdfLinks with the cap of the batch method in both modes
PdfLinksBatchCap(ls, m) == Take(SelectSeq(ls, IsPdf), BatchPdfCap)
\* processor.py 203-204, 309-310
PdfLinks(ls, m) ==
    Take(SelectSeq(ls, IsPdf), IF m = "batch" THEN BatchPdfCap ELSE IncrementalPdfCap)
\* processor.py 212-224, 336-346
JobLinks(ls, m) ==
    Take(SelectSeq(ls, IsJobLink), IF m = "batch" THEN BatchPageCap ELSE IncrementalPageCap)

\* the fields that have no default are given; homeOfficeOption, applicationDate
\* and occupyStart default to None
TableRow(e, h, n, c, f) ==
    [entry |-> e, hasJob |-> h, name |-> n, comments |-> c, foundOn |-> f,
     homeOfficeOption |-> None, applicationDate |-> None, occupyStart |-> None]

\* TableRow(...) raises a validation error for a value of the wrong type
RowAccepted(job_info) == job_info.typed

\* processor.py 54-85
CreateTableRow(e, job_info, found_on) ==
    LET date_str_ == job_info.applicationDate
        application_date == IF Truthy(date_str_) THEN ParseDate(date_str_).value ELSE None
    IN  [TableRow(e, job_info.hasJob, job_info.name, job_info.comments,
                  IF found_on # NoFoundOn THEN found_on ELSE job_info.foundOn)
            EXCEPT !.homeOfficeOption = job_info.homeOfficeOption,
                   !.applicationDate = application_date]

\* the jobs a loop over jobs turns into rows before TableRow raises
RECURSIVE AcceptedPrefix(_)
AcceptedPrefix(jobs) ==
    IF jobs = <<>> \/ ~RowAccepted(Head(jobs)) THEN <<>>
    ELSE <<Head(jobs)>> \o AcceptedPrefix(Tail(jobs))
AllAccepted(jobs) == AcceptedPrefix(jobs) = jobs

RowsFor(e, jobs, found_on) ==
    [i \in 1..Len(jobs) |-> CreateTableRow(e, jobs[i], found_on)]

\* processor.py 324-331, 359-366: rows a PDF or a linked page adds
SecondaryRowsUnfiltered(e, jobs, found_on) ==
    RowsFor(e, AcceptedPrefix(jobs), found_on)
SecondaryRows(e, jobs, found_on) ==
    RowsFor(e, AcceptedPrefix(SelectSeq(jobs, IsJob)), found_on)

\* processor.py 191-197, 279-285
ScrapeErrorRowNoJobs(e) == TableRow(e, FALSE, None, "No jobs found", NoFoundOn)
ScrapeErrorRow(e) == TableRow(e, FALSE, None, "Error scraping website: <e>", NoFoundOn)
\* processor.py 109-115, 153-159
ProcessingErrorRow(e) == TableRow(e, FALSE, None, "Error processing: <e>", NoFoundOn)
\* processor.py 372-378
NoJobsFoundRow(e) == TableRow(e, FALSE, None, "No jobs found", NoFoundOn)

AnyHasJob(rs) == \E i \in 1..Len(rs) : rs[i].hasJob

\* processor.py 370-381
FinalRows(e, rs) ==
    IF rs = <<>> \/ ~AnyHasJob(rs) THEN <<NoJobsFoundRow(e)>> ELSE rs

\* IncLoc with the loop over the job links in front of the loop over the PDFs
IncLocPagesFirst(ls, i_pdf, i_page) ==
    IF i_page < Len(JobLinks(ls, "incremental")) THEN "page_loop"
    ELSE IF i_pdf < Len(PdfLinks(ls, "incremental")) THEN "pdf_loop"
    ELSE "finish"
\* where _process_single_entry_incremental continues after i_pdf PDFs and
\* i_page job links (processor.py 310, 346, 370)
IncLoc(ls, i_pdf, i_page) ==
    IF i_pdf < Len(PdfLinks(ls, "incremental")) THEN "pdf_loop"
    ELSE IF i_page < Len(JobLinks(ls, "incremental")) THEN "page_loop"
    ELSE "finish"
\* where _process_single_entry continues (processor.py 204, 224, 236)
BatchLoc(ls, i_pdf, i_page) ==
    IF i_pdf < Len(PdfLinks(ls, "batch")) THEN "batch_pdf"
    ELSE IF i_page < Len(JobLinks(ls, "batch")) THEN "batch_page"
    ELSE "extract_enter"

\* ------------------------------------------------------------------------
\* JobProcessor._process_single_entry_incremental
\* ------------------------------------------------------------------------
\* processor.py 272-287: scrape of the main page
FetchMainIncremental ==
    /\ pc = "next_entry"
    /\ mode = "incremental"
    /\ cur <= NumEntries
    /\ \/ /\ fetch_failed' = TRUE
          /\ ret' = <<ScrapeErrorRow(cur)>>
          /\ pc' = "emit"
          /\ UNCHANGED <<links, all_rows, src, budget>>
       \/ /\ \E ls \in SeqsUpTo(LinkKinds, Min2(MaxLinks, budget)) :
                /\ links' = ls
                /\ budget' = budget - Len(ls)
          /\ all_rows' = <<>>
          /\ src' = "main"
          /\ pc' = "extract_enter"
          /\ UNCHANGED <<fetch_failed, ret>>
    /\ UNCHANGED <<mode, cur, all_content, pdf_i, page_i, rows, n_llm, n_pdf, n_fetch>>
    /\ UNCHANGED <<enabled, n_chunks, chunk_idx, all_jobs, jobs_info_list, failed, last_kind>>
    /\ UNCHANGED <<chunkVars, modesVars, parseVars, appVars, normVars, normVars>>

\* processor.py 303-310: rows of the main page, every job dict included; an
\* exception of TableRow leaves the method
MainRows ==
    /\ pc = "extract_done"
    /\ src = "main"
    /\ all_rows' = all_rows \o RowsFor(cur, AcceptedPrefix(jobs_info_list), MainLabel)
    /\ pc' = IF AllAccepted(jobs_info_list) THEN IncLoc(links, 0, 0) ELSE "handler"
    /\ src' = "none"
    /\ all_jobs' = <<>>
    /\ jobs_info_list' = <<>>
    /\ failed' = "none"
    /\ last_kind' = "none"
    /\ n_chunks' = 0
    /\ chunk_idx' = 0
    /\ UNCHANGED <<enabled, budget>>
    /\ UNCHANGED <<mode, cur, links, all_content, pdf_i, page_i, ret, rows>>
    /\ UNCHANGED <<chunkVars, modesVars, parseVars, appVars, normVars, obsVars>>

\* processor.py 310-322: text of the next PDF; None skips the PDF
PdfStep ==
    /\ pc = "pdf_loop"
    /\ n_pdf' = n_pdf + 1
    /\ \/ /\ pdf_i' = pdf_i + 1
          /\ pc' = IncLoc(links, pdf_i + 1, page_i)
          /\ UNCHANGED src
       \/ /\ src' = "pdf"
          /\ pc' = "extract_enter"
          /\ UNCHANGED pdf_i
    /\ UNCHANGED <<mode, cur, links, all_rows, all_content, page_i, ret, rows>>
    /\ UNCHANGED <<chunkVars, modesVars, parseVars, appVars, normVars, extractVars, fetch_failed, n_llm, n_fetch>>

\* processor.py 324-333: rows of a PDF, found jobs only; an exception is logged
PdfRows ==
    /\ pc = "extract_done"
    /\ src = "pdf"
    /\ all_rows' = all_rows \o SecondaryRows(cur, jobs_info_list, PdfLabel(pdf_i + 1))
    /\ pdf_i' = pdf_i + 1
    /\ pc' = IncLoc(links, pdf_i + 1, page_i)
    /\ src' = "none"
    /\ all_jobs' = <<>>
    /\ jobs_info_list' = <<>>
    /\ failed' = "none"
    /\ last_kind' = "none"
    /\ n_chunks' = 0
    /\ chunk_idx' = 0
    /\ UNCHANGED <<enabled, budget>>
    /\ UNCHANGED <<mode, cur, links, all_content, page_i, ret, rows>>
    /\ UNCHANGED <<chunkVars, modesVars, parseVars, appVars, normVars, obsVars>>

\* processor.py 346-357: scrape of the next job link; an exception skips it
PageStep ==
    /\ pc = "page_loop"
    /\ n_fetch' = n_fetch + 1
    /\ \/ /\ page_i' = page_i + 1
          /\ pc' = IncLoc(links, pdf_i, page_i + 1)
          /\ UNCHANGED src
       \/ /\ src' = "page"
          /\ pc' = "extract_enter"
          /\ UNCHANGED page_i
    /\ UNCHANGED <<mode, cur, links, all_rows, all_content, pdf_i, ret, rows>>
    /\ UNCHANGED <<chunkVars, modesVars, parseVars, appVars, normVars, extractVars, fetch_failed, n_llm, n_pdf>>

\* processor.py 359-368: rows of a linked page, found jobs only
PageRows ==
    /\ pc = "extract_done"
    /\ src = "page"
    /\ all_rows' = all_rows \o SecondaryRows(cur, jobs_info_list, PageLabel(page_i + 1))
    /\ page_i' = page_i + 1
    /\ pc' = IncLoc(links, pdf_i, page_i + 1)
    /\ src' = "none"
    /\ all_jobs' = <<>>
    /\ jobs_info_list' = <<>>
    /\ failed' = "none"
    /\ last_kind' = "none"
    /\ n_chunks' = 0
    /\ chunk_idx' = 0
    /\ UNCHANGED <<enabled, budget>>
    /\ UNCHANGED <<mode, cur, links, all_content, pdf_i, ret, rows>>
    /\ UNCHANGED <<chunkVars, modesVars, parseVars, appVars, normVars, obsVars>>

\* processor.py 370-381: the no-jobs row, and the return
FinishIncremental ==
    /\ pc = "finish"
    /\ ret' = FinalRows(cur, all_rows)
    /\ pc' = "emit"
    /\ UNCHANGED <<mode, cur, src, links, all_rows, all_content, pdf_i, page_i, rows>>
    /\ UNCHANGED <<chunkVars, modesVars, parseVars, appVars, normVars, extractVars, obsVars>>


\* ------------------------------------------------------------------------
\* JobProcessor._process_single_entry
\* ------------------------------------------------------------------------
\* processor.py 184-204: scrape of the main page
FetchMainBatch ==
    /\ pc = "next_entry"
    /\ mode = "batch"
    /\ cur <= NumEntries
    /\ \/ /\ fetch_failed' = TRUE
          /\ ret' = <<ScrapeErrorRow(cur)>>
          /\ pc' = "emit"
          /\ UNCHANGED <<links, all_content, src, budget>>
       \/ /\ \E ls \in SeqsUpTo(LinkKinds, Min2(MaxLinks, budget)) :
                /\ links' = ls
                /\ budget' = budget - Len(ls)
                /\ pc' = BatchLoc(ls, 0, 0)
                /\ src' = IF BatchLoc(ls, 0, 0) = "extract_enter" THEN "combined" ELSE src
          /\ all_content' = <<"Main page content">>
          /\ UNCHANGED <<fetch_failed, ret>>
    /\ UNCHANGED <<mode, cur, all_rows, pdf_i, page_i, rows, n_llm, n_pdf, n_fetch>>
    /\ UNCHANGED <<enabled, n_chunks, chunk_idx, all_jobs, jobs_info_list, failed, last_kind>>
    /\ UNCHANGED <<chunkVars, modesVars, parseVars, appVars, normVars, normVars>>

\* processor.py 204-208: text of the next PDF joins all_content unless it is None
BatchPdfStep ==
    /\ pc = "batch_pdf"
    /\ n_pdf' = n_pdf + 1
    /\ \/ UNCHANGED all_content
       \/ all_content' = Append(all_content, "PDF content")
    /\ pdf_i' = pdf_i + 1
    /\ pc' = BatchLoc(links, pdf_i + 1, page_i)
    /\ src' = IF BatchLoc(links, pdf_i + 1, page_i) = "extract_enter" THEN "combined" ELSE src
    /\ UNCHANGED <<mode, cur, links, all_rows, page_i, ret, rows>>
    /\ UNCHANGED <<chunkVars, modesVars, parseVars, appVars, normVars, extractVars, fetch_failed, n_llm, n_fetch>>

\* processor.py 224-241: text of the next job link joins all_content unless the
\* scrape raises; after the last one the combined content goes to the agent
BatchPageStep ==
    /\ pc = "batch_page"
    /\ n_fetch' = n_fetch + 1
    /\ \/ UNCHANGED all_content
       \/ all_content' = Append(all_content, "Job detail page")
    /\ page_i' = page_i + 1
    /\ pc' = BatchLoc(links, pdf_i, page_i + 1)
    /\ src' = IF BatchLoc(links, pdf_i, page_i + 1) = "extract_enter" THEN "combined" ELSE src
    /\ UNCHANGED <<mode, cur, links, all_rows, pdf_i, ret, rows>>
    /\ UNCHANGED <<chunkVars, modesVars, parseVars, appVars, normVars, extractVars, fetch_failed, n_llm, n_pdf>>

\* processor.py 243-250: one row per returned job dict; an exception of
\* TableRow leaves the method
BatchRows ==
    /\ pc = "extract_done"
    /\ src = "combined"
    /\ IF AllAccepted(jobs_info_list)
       THEN /\ ret' = RowsFor(cur, jobs_info_list, NoFoundOn)
            /\ pc' = "emit"
       ELSE /\ pc' = "handler"
            /\ UNCHANGED ret
    /\ src' = "none"
    /\ all_jobs' = <<>>
    /\ jobs_info_list' = <<>>
    /\ failed' = "none"
    /\ last_kind' = "none"
    /\ n_chunks' = 0
    /\ chunk_idx' = 0
    /\ UNCHANGED <<enabled, budget>>
    /\ UNCHANGED <<mode, cur, links, all_rows, all_content, pdf_i, page_i, rows>>
    /\ UNCHANGED <<chunkVars, modesVars, parseVars, appVars, normVars, obsVars>>

\* ------------------------------------------------------------------------
\* JobProcessor.process_all_jobs, JobProcessor.process_jobs_incrementally
\* ------------------------------------------------------------------------
\* the frame of the per-entry method is gone, the loop moves to the next entry
NextEntry ==
    /\ cur' = cur + 1
    /\ pc' = "next_entry"
    /\ src' = "none"
    /\ links' = <<>>
    /\ all_rows' = <<>>
    /\ all_content' = <<>>
    /\ pdf_i' = 0
    /\ page_i' = 0
    /\ ret' = <<>>
    /\ fetch_failed' = FALSE
    /\ n_llm' = 0
    /\ n_pdf' = 0
    /\ n_fetch' = 0
    /\ UNCHANGED <<mode, enabled, n_chunks, chunk_idx, all_jobs, jobs_info_list, failed,
                   last_kind, budget>>
    /\ UNCHANGED <<chunkVars, modesVars, parseVars, appVars, normVars, normVars>>

\* processor.py 101-105: rows.extend(entry_rows)
EmitBatchInFront ==
    /\ pc = "emit"
    /\ mode = "batch"
    /\ rows' = ret \o rows
    /\ NextEntry
EmitBatch ==
    /\ pc = "emit"
    /\ mode = "batch"
    /\ rows' = rows \o ret
    /\ NextEntry

\* processor.py 106-116: an exception of the entry becomes one error row
HandlerBatch ==
    /\ pc = "handler"
    /\ mode = "batch"
    /\ rows' = Append(rows, ProcessingErrorRow(cur))
    /\ NextEntry

\* processor.py 143-149: the next row of the entry is yielded and the caller
\* appends it (main.py 132-134); after the last one the loop goes on
EmitIncrementalDropRest ==
    /\ pc = "emit"
    /\ mode = "incremental"
    /\ rows' = Append(rows, Head(ret))
    /\ NextEntry
EmitIncremental ==
    /\ pc = "emit"
    /\ mode = "incremental"
    /\ rows' = Append(rows, Head(ret))
    /\ IF Len(ret) > 1
       THEN /\ ret' = Tail(ret)
            /\ UNCHANGED <<mode, cur, pc, src, links, all_rows, all_content, pdf_i, page_i>>
            /\ UNCHANGED <<chunkVars, modesVars, parseVars, appVars, normVars, extractVars, obsVars>>
       ELSE NextEntry

\* processor.py 150-160: an exception of the entry becomes one yielded error row
HandlerIncrementalReraise ==
    /\ pc = "handler"
    /\ mode = "incremental"
    /\ pc' = "aborted"
    /\ UNCHANGED <<mode, cur, src, links, all_rows, all_content, pdf_i, page_i, ret, rows>>
    /\ UNCHANGED <<chunkVars, modesVars, parseVars, appVars, normVars, extractVars, obsVars>>
HandlerIncremental ==
    /\ pc = "handler"
    /\ mode = "incremental"
    /\ rows' = Append(rows, ProcessingErrorRow(cur))
    /\ NextEntry

\* processor.py 118-119, 162: no entry is left
Complete ==
    /\ pc = "next_entry"
    /\ cur > NumEntries
    /\ pc' = "done"
    /\ UNCHANGED <<mode, cur, src, links, all_rows, all_content, pdf_i, page_i, ret, rows>>
    /\ UNCHANGED <<chunkVars, modesVars, parseVars, appVars, normVars, extractVars, obsVars>>

\* ------------------------------------------------------------------------
\* Post-processing of one job dict into a row
\* ------------------------------------------------------------------------
\* elements of the dependency's JSON offered to the post-processing
NormRawJobs ==
    {[RawJob(h, Some(TitleA), TRUE) EXCEPT !.homeOfficeOption = ho, !.foundOn = fo,
                                           !.applicationDate = ad, !.occupyStart = os] :
        h \in BOOLEAN,
        ho \in {None, Some(TRUE), Some(FALSE)},
        fo \in {NoFoundOn, SourceUrl, OtherUrl, MainLabel},
        ad \in {NullValue, StrValue(<<>>), Date_2025_12_31_Iso, Date_2025_12_31_Dotted,
                Date_AbSofort, OtherValue(TRUE)},
        os \in {NullValue, Date_2025_12_31_Iso, Date_AbSofort}}

\* ai_agent.py 367-377 and then processor.py 54-85: the row of one parsed job
Normalize(job, found_on) == CreateTableRow(1, PostProcess(job), found_on)

\* the fields of a row as a dict: model_dump() keeps a date as a date object,
\* model_dump(mode='json') gives its isoformat() string
DumpDate(d, dump_mode) ==
    IF d = None THEN NullValue
    ELSE IF dump_mode = "json" THEN StrValue(IsoSpelling(d[1])) ELSE DateObject(d[1])
ModelDump(row, dump_mode) ==
    [hasJob |-> row.hasJob, name |-> row.name, comments |-> row.comments,
     foundOn |-> row.foundOn, typed |-> TRUE,
     homeOfficeOption |-> row.homeOfficeOption,
     applicationDate |-> DumpDate(row.applicationDate, dump_mode),
     occupyStart |-> DumpDate(row.occupyStart, dump_mode)]

\* the post-processing of the chunk loop and _create_table_row on raw_job
NormalizeJob ==
    /\ raw_job # <<>>
    /\ normalized = <<>>
    /\ normalized' = <<Normalize(raw_job[1], found_on_arg)>>
    /\ UNCHANGED <<date_str, parsed, raw_job, found_on_arg, renormalized>>
    /\ UNCHANGED <<chunkVars, extractVars, procVars, obsVars, modesVars, parseVars, appVars>>

\* the same on the fields of the row just built
NormalizeAgain ==
    /\ normalized # <<>>
    /\ renormalized = <<>>
    /\ \E dump_mode \in {"python", "json"} :
          renormalized' = <<Normalize(ModelDump(normalized[1], dump_mode), found_on_arg)>>
    /\ UNCHANGED <<date_str, parsed, raw_job, found_on_arg, normalized>>
    /\ UNCHANGED <<chunkVars, extractVars, procVars, obsVars, modesVars, parseVars, appVars>>

\* ------------------------------------------------------------------------
\* One entry under _process_single_entry and _process_single_entry_incremental
\* ------------------------------------------------------------------------
\* What the environment answers for one entry, the same for both methods: the
\* scrape of the main page raises or returns links; every PDF and every linked
\* page is readable or none is; the dependency gives one answer to the first
\* llm.invoke of a method and one to every later llm.invoke.  Every content is
\* short enough to be one chunk.
ModesAnswers ==
    {Response("raise_conn", <<>>), Response("json_array", <<>>)}
      \cup {Response("json_object", <<j>>) : j \in RunRawJobs}
Oracles ==
    [main_ok : BOOLEAN, links : SeqsUpTo(LinkKinds, MaxLinks), sub_ok : BOOLEAN,
     first : ModesAnswers, later : ModesAnswers]
Answer == IF n_llm = 0 THEN oracle.first ELSE oracle.later

\* the steps of the two methods, with the outcome the oracle gives
ModesFetchMainBatch ==
    /\ FetchMainBatch
    /\ fetch_failed' = ~oracle.main_ok
    /\ oracle.main_ok => links' = oracle.links
ModesBatchPdfStep ==
    /\ BatchPdfStep
    /\ (all_content' # all_content) = oracle.sub_ok
ModesBatchPageStep ==
    /\ BatchPageStep
    /\ (all_content' # all_content) = oracle.sub_ok
ModesExtractEnter ==
    /\ ExtractEnter
    /\ n_chunks' <= 1
ModesExtractChunk ==
    /\ ExtractChunk
    /\ last_kind' = Answer.kind
    /\ budget' = budget - Len(Answer.jobs)
    /\ ExceptBranch(Answer) = "none" => all_jobs' = all_jobs \o ChunkJobs(Answer, chunk_idx)
ModesFetchMainIncremental ==
    /\ FetchMainIncremental
    /\ fetch_failed' = ~oracle.main_ok
    /\ oracle.main_ok => links' = oracle.links
ModesPdfStep ==
    /\ PdfStep
    /\ (src' = "pdf") = oracle.sub_ok
ModesPageStep ==
    /\ PageStep
    /\ (src' = "page") = oracle.sub_ok

\* the rows a loop over the entries emits for the entry: the returned rows, or
\* the one row of its except branch (processor.py 101-116, 143-160)
EmittedForEntry == IF pc = "emit" THEN ret ELSE <<ProcessingErrorRow(cur)>>

\* the batch method is through with the entry; the incremental method starts
\* on the same entry
ModesSwitch ==
    /\ mode = "batch"
    /\ pc \in {"emit", "handler"}
    /\ batch_ret' = <<EmittedForEntry>>
    /\ mode' = "incremental"
    /\ pc' = "next_entry"
    /\ src' = "none"
    /\ links' = <<>>
    /\ all_rows' = <<>>
    /\ all_content' = <<>>
    /\ pdf_i' = 0
    /\ page_i' = 0
    /\ ret' = <<>>
    /\ fetch_failed' = FALSE
    /\ n_llm' = 0
    /\ n_pdf' = 0
    /\ n_fetch' = 0
    /\ UNCHANGED <<cur, rows, oracle>>
    /\ UNCHANGED <<chunkVars, extractVars, normVars, parseVars, appVars>>

\* ------------------------------------------------------------------------
\* Specifications
\* ------------------------------------------------------------------------
ChunkIdle ==
    /\ content = <<>>
    /\ max_length = 1
    /\ chunks = <<>>
    /\ current_pos = 0
    /\ chunk_pc = "unused"

ExtractIdle ==
    /\ n_chunks = 0
    /\ chunk_idx = 0
    /\ all_jobs = <<>>
    /\ jobs_info_list = <<>>
    /\ failed = "none"
    /\ last_kind = "none"

ProcIdle ==
    /\ cur = 1
    /\ links = <<>>
    /\ all_rows = <<>>
    /\ all_content = <<>>
    /\ pdf_i = 0
    /\ page_i = 0
    /\ ret = <<>>
    /\ rows = <<>>
    /\ fetch_failed = FALSE
    /\ n_llm = 0
    /\ n_pdf = 0
    /\ n_fetch = 0

\* ------------------------------------------------------------------------
\* The application: lifespan, /jobs, direct calls of the agent
\* ------------------------------------------------------------------------
\* processor.py 19-23: JobProcessor.__init__(self, excel_path, timeout=30)
\* called with keyword arguments; a keyword it does not know is a TypeError,
\* otherwise it builds its own AIAgent()
JobProcessorInit(kwargs) ==
    IF kwargs \subseteq {"excel_path", "timeout"} /\ "excel_path" \in kwargs
    THEN [outcome |-> "ok", new_agents |-> 1]
    ELSE [outcome |-> "type_error", new_agents |-> 0]

\* main.py 37-52 and ai_agent.py 77-170: lifespan builds the global AIAgent;
\* last_api_call_time is set only when the models were loaded
Startup ==
    /\ app_pc = "boot"
    /\ app_pc' = "idle"
    /\ agent_inits' = agent_inits + 1
    /\ \E loaded \in BOOLEAN :
          /\ enabled' = loaded
          /\ last_api_call_time' = IF loaded THEN clock ELSE last_api_call_time
    /\ UNCHANGED <<n_runs, ctor, clock>>
    /\ UNCHANGED <<n_chunks, chunk_idx, all_jobs, jobs_info_list, failed, last_kind, budget>>
    /\ UNCHANGED <<chunkVars, procVars, obsVars, normVars, modesVars, parseVars>>

\* time.time() grows
Tick ==
    /\ clock < MaxClock
    /\ clock' = clock + 1
    /\ UNCHANGED <<app_pc, agent_inits, n_runs, ctor, last_api_call_time>>
    /\ UNCHANGED <<chunkVars, extractVars, procVars, obsVars, normVars, modesVars, parseVars>>

\* main.py 121-130 and 143-168: the background job of GET /jobs builds a
\* JobProcessor with excel_path, ai_agent and timeout; an exception ends the
\* job and is logged
RunJobs ==
    /\ app_pc = "idle"
    /\ n_runs < MaxRuns
    /\ n_runs' = n_runs + 1
    /\ LET processor == JobProcessorInit({"excel_path", "ai_agent", "timeout"})
       IN  /\ ctor' = processor.outcome
           /\ agent_inits' = agent_inits + processor.new_agents
    /\ UNCHANGED <<app_pc, clock, last_api_call_time>>
    /\ UNCHANGED <<chunkVars, extractVars, procVars, obsVars, normVars, modesVars, parseVars>>

\* a caller hands one source to extract_multiple_jobs of the global agent
\* (as src/test_multiple_jobs.py 18-25 does)
AgentCall ==
    /\ app_pc = "idle"
    /\ pc \in {"unused", "extract_done"}
    /\ n_llm < MaxInvocations
    /\ pc' = "extract_enter"
    /\ budget' = MaxJobsPerChunk
    /\ UNCHANGED <<enabled, n_chunks, chunk_idx, all_jobs, jobs_info_list, failed, last_kind>>
    /\ UNCHANGED <<mode, cur, src, links, all_rows, all_content, pdf_i, page_i, ret, rows>>
    /\ UNCHANGED <<chunkVars, obsVars, normVars, modesVars, parseVars, appVars>>

ParseIdle ==
    /\ response_text = <<>>
    /\ parse_result = <<>>

AppIdle ==
    /\ app_pc = "unused"
    /\ agent_inits = 0
    /\ n_runs = 0
    /\ ctor = "none"
    /\ clock = 0
    /\ last_api_call_time = -1

ModesIdle ==
    /\ ParseIdle
    /\ AppIdle
    /\ oracle = <<>>
    /\ batch_ret = <<>>

NormIdle ==
    /\ ModesIdle
    /\ date_str = NullValue
    /\ parsed = <<>>
    /\ raw_job = <<>>
    /\ found_on_arg = NoFoundOn
    /\ normalized = <<>>
    /\ renormalized = <<>>

\* a run of process_all_jobs or of process_jobs_incrementally
Init ==
    /\ ChunkIdle
    /\ NormIdle
    /\ ExtractIdle
    /\ ProcIdle
    /\ mode \in {"batch", "incremental"}
    /\ enabled \in BOOLEAN
    /\ budget = MaxItems
    /\ src = "none"
    /\ pc = "next_entry"

Next ==
    \/ FetchMainIncremental
    \/ MainRows
    \/ PdfStep
    \/ PdfRows
    \/ PageStep
    \/ PageRows
    \/ FinishIncremental
    \/ FetchMainBatch
    \/ BatchPdfStep
    \/ BatchPageStep
    \/ BatchRows
    \/ ExtractEnter
    \/ ExtractChunk
    \/ ExtractFinish
    \/ EmitBatch
    \/ HandlerBatch
    \/ EmitIncremental
    \/ HandlerIncremental
    \/ Complete

Spec == Init /\ [][Next]_vars

\* one call of extract_multiple_jobs on the content of one source
InitExtract ==
    /\ ChunkIdle
    /\ NormIdle
    /\ ExtractIdle
    /\ ProcIdle
    /\ mode = "unit"
    /\ src = "unit"
    /\ enabled \in BOOLEAN
    /\ budget = MaxChunks * MaxJobsPerChunk
    /\ pc = "extract_enter"

NextExtract ==
    \/ ExtractEnter
    \/ ExtractChunk
    \/ ExtractFinish

SpecExtract == InitExtract /\ [][NextExtract]_vars

InitChunk ==
    /\ content \in SeqsUpTo(TextChars, MaxLen)
    /\ max_length \in 1..MaxBound
    /\ chunks = <<>>
    /\ current_pos = 0
    /\ chunk_pc = "entry"
    /\ NormIdle
    /\ ExtractIdle
    /\ ProcIdle
    /\ mode = "chunk"
    /\ enabled = FALSE
    /\ budget = 0
    /\ src = "none"
    /\ pc = "unused"

NextChunk ==
    \/ ChunkEntry
    \/ ChunkIterate
    \/ ChunkReturn

SpecChunk == InitChunk /\ [][NextChunk]_vars

\* _chunk_content is straight-line sequential code: once called, it keeps
\* executing its next statement
SpecChunkLive == SpecChunk /\ WF_vars(NextChunk)

\* one call of _parse_date
InitParseDate ==
    /\ ChunkIdle
    /\ ModesIdle
    /\ ExtractIdle
    /\ ProcIdle
    /\ \/ date_str \in OtherInputs
       \/ \E s \in ShortDateStrings, sep \in Separators, g \in DigitGroups :
             date_str = StrValue(s \o <<sep>> \o g)
    /\ parsed = <<>>
    /\ raw_job = <<>>
    /\ found_on_arg = NoFoundOn
    /\ normalized = <<>>
    /\ renormalized = <<>>
    /\ mode = "parse_date"
    /\ enabled = FALSE
    /\ budget = 0
    /\ src = "none"
    /\ pc = "unused"

NextParseDate == ParseDateCall

SpecParseDate == InitParseDate /\ [][NextParseDate]_vars

InitParseResponse ==
    /\ ChunkIdle
    /\ ExtractIdle
    /\ ProcIdle
    /\ AppIdle
    /\ date_str = NullValue
    /\ parsed = <<>>
    /\ raw_job = <<>>
    /\ found_on_arg = NoFoundOn
    /\ normalized = <<>>
    /\ renormalized = <<>>
    /\ oracle = <<>>
    /\ batch_ret = <<>>
    /\ \/ \E p \in Payloads, pre \in {<<>>, <<NL>>} :
             response_text = Fenced(pre, <<>>, p, <<>>, pre)
       \/ \E pre \in Prefaces, open \in FenceOpens, p \in Payloads, close \in FenceCloses :
             response_text = Fenced(pre, open, p, close, <<>>)
    /\ parse_result = <<>>
    /\ mode = "parse_response"
    /\ enabled = TRUE
    /\ budget = 0
    /\ src = "none"
    /\ pc = "unused"

NextParseResponse == ParseResponseCall

SpecParseResponse == InitParseResponse /\ [][NextParseResponse]_vars

InitApp ==
    /\ ChunkIdle
    /\ ExtractIdle
    /\ ProcIdle
    /\ ParseIdle
    /\ date_str = NullValue
    /\ parsed = <<>>
    /\ raw_job = <<>>
    /\ found_on_arg = NoFoundOn
    /\ normalized = <<>>
    /\ renormalized = <<>>
    /\ oracle = <<>>
    /\ batch_ret = <<>>
    /\ app_pc = "boot"
    /\ agent_inits = 0
    /\ n_runs = 0
    /\ ctor = "none"
    /\ clock = 0
    /\ last_api_call_time = -1
    /\ mode = "app"
    /\ enabled = FALSE
    /\ budget = 0
    /\ src = "unit"
    /\ pc = "unused"

NextApp ==
    \/ Startup
    \/ Tick
    \/ RunJobs
    \/ AgentCall
    \/ ExtractEnter
    \/ ExtractChunk
    \/ ExtractFinish

SpecApp == InitApp /\ [][NextApp]_vars

\* one parsed job dict on its way into a row
InitNormalize ==
    /\ ChunkIdle
    /\ ModesIdle
    /\ ExtractIdle
    /\ ProcIdle
    /\ date_str = NullValue
    /\ parsed = <<>>
    /\ \E j \in NormRawJobs : raw_job = <<j>>
    /\ found_on_arg \in {NoFoundOn, MainLabel, PdfLabel(1)}
    /\ normalized = <<>>
    /\ renormalized = <<>>
    /\ mode = "normalize"
    /\ enabled = TRUE
    /\ budget = 0
    /\ src = "none"
    /\ pc = "unused"

NextNormalize ==
    \/ NormalizeJob
    \/ NormalizeAgain

SpecNormalize == InitNormalize /\ [][NextNormalize]_vars

\* one entry processed by the batch method and then by the incremental method
InitModes ==
    /\ ChunkIdle
    /\ ExtractIdle
    /\ ProcIdle
    /\ date_str = NullValue
    /\ parsed = <<>>
    /\ raw_job = <<>>
    /\ found_on_arg = NoFoundOn
    /\ normalized = <<>>
    /\ renormalized = <<>>
    /\ ParseIdle
    /\ AppIdle
    /\ oracle \in Oracles
    /\ batch_ret = <<>>
    /\ mode = "batch"
    /\ enabled \in BOOLEAN
    /\ budget = 2 * (MaxLinks + 1 + IncrementalPdfCap + IncrementalPageCap)
    /\ src = "none"
    /\ pc = "next_entry"

NextModes ==
    \/ ModesFetchMainBatch
    \/ ModesBatchPdfStep
    \/ ModesBatchPageStep
    \/ BatchRows
    \/ ModesExtractEnter
    \/ ModesExtractChunk
    \/ ExtractFinish
    \/ ModesSwitch
    \/ ModesFetchMainIncremental
    \/ MainRows
    \/ ModesPdfStep
    \/ PdfRows
    \/ ModesPageStep
    \/ PageRows
    \/ FinishIncremental

SpecModes == InitModes /\ [][NextModes]_vars

\* ------------------------------------------------------------------------
\* Claims on _chunk_content
\* ------------------------------------------------------------------------
\* C7: for every text and every max_length >= 1 the segments returned by
\* _chunk_content, concatenated in order, equal the input text exactly; during
\* the loop the segments produced so far concatenate to the scanned prefix.
C7_ConcatEqualsInput ==
    /\ chunk_pc = "returned" => Concat(chunks) = content
    /\ chunk_pc = "loop" => Concat(chunks) = Slice(content, 0, current_pos)

\* a returned segmentation that cut at a paragraph break, one that cut at a
\* sentence break and raw window cuts all occur; this one has a paragraph cut
C7_Witness ==
    /\ chunk_pc = "returned"
    /\ Len(chunks) >= 2
    /\ \E i \in 1..(Len(chunks) - 1) :
          /\ Len(chunks[i]) < max_length
          /\ Len(chunks[i + 1]) >= 2
          /\ SubSeq(chunks[i + 1], 1, 2) = <<NL, NL>>

\* C8: every segment returned by _chunk_content has length at most max_length
\* (the code never emits a longer segment: a cut is always inside the window).
C8_SegmentsBounded ==
    \A i \in 1..Len(chunks) : Len(chunks[i]) <= max_length

\* a text longer than the bound, cut at a sentence break before the window end
C8_Witness ==
    /\ chunk_pc = "returned"
    /\ Len(content) > max_length
    /\ \E i \in 1..(Len(chunks) - 1) :
          /\ Len(chunks[i]) < max_length
          /\ chunks[i][Len(chunks[i])] = "."
          /\ chunks[i + 1][1] = " "

\* ------------------------------------------------------------------------
\* Claims on the per-entry methods and the two loops over the entries
\* ------------------------------------------------------------------------
EntryRows(i) == SelectSeq(rows, LAMBDA r : r.entry = i)
NoJobRows(rs) == SelectSeq(rs, LAMBDA r : ~r.hasJob)
RowTitle(r) == Strip(Lower(IF r.name = None THEN <<>> ELSE r.name[1]))
InRun == mode \in {"batch", "incremental"}

\* C1: whatever the main-page scrape, the PDF extractions, the linked-page
\* scrapes and the dependency do, process_all_jobs and
\* process_jobs_incrementally emit at least one row for every entry.
C1_AtLeastOneRowPerEntry ==
    InRun =>
        /\ \A i \in 1..NumEntries : i < cur => EntryRows(i) # <<>>
        /\ pc = "emit" => ret # <<>>

\* a finished batch run in which the dependency found nothing for one entry
\* and TableRow raised for the other
C1_Witness ==
    /\ mode = "batch"
    /\ pc = "done"
    /\ \E k \in 1..Len(rows) : rows[k].comments = "Error processing: <e>"
    /\ \E k \in 1..Len(rows) :
          rows[k].comments = "Keine passenden Verwaltungsstellen gefunden"

\* C2: the rows the incremental method returns for one entry are either all
\* hasJob=true or exactly one hasJob=false row.
C2_AllJobsOrOneSentinel ==
    (mode = "incremental" /\ pc = "emit") =>
        \/ \A k \in 1..Len(ret) : ret[k].hasJob
        \/ Len(ret) = 1 /\ ~ret[1].hasJob

\* C3: among the rows returned for one entry no two hasJob=true rows have the
\* same title after lowercasing and trimming.
C3_TitlesUniquePerEntry ==
    (InRun /\ pc = "emit") =>
        \A k, l \in 1..Len(ret) :
            (k < l /\ ret[k].hasJob /\ ret[l].hasJob) => RowTitle(ret[k]) # RowTitle(ret[l])

\* C4: the rows of one entry contain at most one hasJob=false row, and every
\* row a PDF or a linked page added to the accumulator is hasJob=true.
C4_AtMostOneNoJobRow ==
    InRun =>
        /\ \A i \in 1..NumEntries : Len(NoJobRows(EntryRows(i))) <= 1
        /\ pc = "emit" => Len(NoJobRows(ret)) <= 1
        /\ \A k \in 1..Len(all_rows) :
              all_rows[k].foundOn[1] \in {"PDF: ", "Page: "} => all_rows[k].hasJob

\* the main page gave the no-jobs record, a PDF and a linked page were both
\* extracted and one of them gave a job
C4_Witness ==
    /\ mode = "incremental"
    /\ pc = "emit"
    /\ pdf_i >= 1
    /\ page_i >= 1
    /\ n_llm >= 3
    /\ Len(NoJobRows(ret)) = 1
    /\ \E k \in 1..Len(ret) : ret[k].hasJob

\* C5: when the main-page scrape of an entry fails, the method returns exactly
\* one row, hasJob=false with the scrape error in comments, and has made no
\* llm.invoke call, no PDF extraction and no linked-page scrape for the entry.
C5_FetchFailureIsOneErrorRow ==
    (InRun /\ pc = "emit" /\ fetch_failed) =>
        /\ Len(ret) = 1
        /\ ~ret[1].hasJob
        /\ ret[1].comments = "Error scraping website: <e>"
        /\ ret[1].entry = cur
        /\ n_llm = 0
        /\ n_pdf = 0
        /\ n_fetch = 0

\* the second entry fails to load after the first one gave rows
C5_Witness ==
    /\ pc = "emit"
    /\ fetch_failed
    /\ cur = 2
    /\ \E k \in 1..Len(rows) : rows[k].hasJob

\* C6: a failing entry never aborts the run.  No step changes or removes a row
\* already emitted, a step only adds rows of the entry being processed, the
\* step after a returned or a failed entry emits a row and, unless rows of the
\* entry are still to be yielded, moves to the next entry, and a finished run
\* has rows for every entry.
C6_StateOk ==
    /\ pc # "aborted"
    /\ pc = "done" => \A i \in 1..NumEntries : EntryRows(i) # <<>>
C6_StepOk ==
    /\ Len(rows') >= Len(rows)
    /\ SubSeq(rows', 1, Len(rows)) = rows
    /\ \A k \in (Len(rows) + 1)..Len(rows') : rows'[k].entry = cur
    /\ pc \in {"emit", "handler"} =>
          /\ Len(rows') > Len(rows)
          /\ \/ pc' = "next_entry" /\ cur' = cur + 1
             \/ pc = "emit" /\ pc' = "emit" /\ cur' = cur /\ Len(ret) > 1
C6_FailureDoesNotAbort == [](InRun => C6_StateOk) /\ [][InRun => C6_StepOk]_vars

\* the first entry failed (scrape error or exception) and the second one
\* still gave a job
C6_Witness ==
    /\ InRun
    /\ pc = "done"
    /\ ~rows[1].hasJob
    /\ rows[1].entry = 1
    /\ rows[1].comments \in {"Error scraping website: <e>", "Error processing: <e>"}
    /\ \E k \in 1..Len(rows) : rows[k].entry = 2 /\ rows[k].hasJob

\* ------------------------------------------------------------------------
\* Claims on extract_multiple_jobs
\* ------------------------------------------------------------------------
\* C9: a parse failure or a connection failure on one chunk is local to the
\* chunk: the hasJob=true records of the other chunks are still returned.
C9_FailureLocalToChunk ==
    (pc = "extract_done" /\ failed \in {"parse", "conn"}) =>
        \A i \in 1..Len(all_jobs) :
            all_jobs[i].hasJob =>
                \E k \in 1..Len(jobs_info_list) :
                    /\ jobs_info_list[k].hasJob
                    /\ JobName(jobs_info_list[k]) = JobName(all_jobs[i])

\* C10: extract_multiple_jobs returns a non-empty list, and when the dependency
\* raised, returned text that is not JSON or returned JSON that is not an object
\* or a list of objects, the list is one hasJob=false record with the error
\* description in comments.
C10_FailureGivesErrorRecord ==
    pc = "extract_done" =>
        /\ jobs_info_list # <<>>
        /\ last_kind \in FailKinds \cup {"json_empty_str"} =>
              /\ Len(jobs_info_list) = 1
              /\ ~jobs_info_list[1].hasJob
              /\ jobs_info_list[1].comments \in ErrorComments

\* C11: for one source with any number of chunks a call that did not fail
\* returns either one or more records that are all hasJob=true, or exactly one
\* hasJob=false record; when no chunk reported a job that record is the fixed
\* 'Keine passenden Verwaltungsstellen gefunden' sentinel.
C11_OneSentinelPerSource ==
    (pc = "extract_done" /\ enabled /\ failed = "none") =>
        \/ /\ jobs_info_list # <<>>
           /\ \A k \in 1..Len(jobs_info_list) : jobs_info_list[k].hasJob
        \/ jobs_info_list = <<NoJobsSentinel>>

\* two chunks: the first one reported hasJob=false records, the second one
\* reported one record, hasJob=false as well, and one sentinel is returned
C11_Witness ==
    /\ pc = "extract_done"
    /\ failed = "none"
    /\ n_chunks = 2
    /\ chunk_idx = 2
    /\ last_kind = "json_object"
    /\ budget <= MaxChunks * MaxJobsPerChunk - 2
    /\ jobs_info_list = <<NoJobsSentinel>>

\* ------------------------------------------------------------------------
\* Claims on _parse_date
\* ------------------------------------------------------------------------
\* the dotted and the slash spelling of a calendar date <<y, m, d>>
DottedSpelling(d) == Pad2(d[3]) \o <<".">> \o Pad2(d[2]) \o <<".">> \o Pad4(d[1])
SlashSpelling(d) == Pad2(d[3]) \o <<"/">> \o Pad2(d[2]) \o <<"/">> \o Pad4(d[1])
CalendarDates ==
    {d \in {2024, 2025} \X {2, 12} \X {2, 29, 31} : ValidDate(d[1], d[2], d[3])}

\* C18: _parse_date never raises; it maps the ISO, the dotted and the slash
\* spelling of one calendar date to that date; it maps None, the empty string
\* and every value that is not a string to absent; and a date it returns is a
\* calendar date spelled by the string as year, month and day in one of the
\* three layouts, so any other string is absent.
C18_ParseDateSpellings ==
    parsed # <<>> =>
        /\ parsed[1].outcome = "returned"
        /\ \A d \in CalendarDates :
              date_str \in {StrValue(IsoSpelling(d)), StrValue(DottedSpelling(d)),
                            StrValue(SlashSpelling(d))}
                  => parsed[1].value = Some(d)
        /\ (date_str.kind # "str" \/ date_str.chars = <<>>) => parsed[1].value = None
        /\ parsed[1].value # None =>
              LET d == parsed[1].value[1]
              IN  /\ ValidDate(d[1], d[2], d[3])
                  /\ \E sep \in Separators :
                        LET g == SplitOn(date_str.chars, sep)
                        IN  /\ Len(g) = 3
                            /\ \A t \in Separators \ {sep} :
                                  \A i \in 1..Len(date_str.chars) : date_str.chars[i] # t
                            /\ IF sep = "-"
                               THEN Len(g[1]) = 4 /\ NumVal(g[1]) = d[1] /\ DayVal(g[3]) = d[3]
                               ELSE Len(g[3]) = 4 /\ NumVal(g[3]) = d[1] /\ DayVal(g[1]) = d[3]
                            /\ NumVal(g[2]) = d[2]

\* the dotted spelling of 31 December 2025 was parsed
C18_Witness ==
    /\ parsed = <<Returned(Some(<<2025, 12, 31>>))>>
    /\ date_str = StrValue(DottedSpelling(<<2025, 12, 31>>))

\* ------------------------------------------------------------------------
\* Claims on the fields of the emitted rows
\* ------------------------------------------------------------------------
RowsInFlight == rows \o ret \o all_rows

\* C12: every row with hasJob=true that a run returns, accumulates or emits
\* has a boolean homeOfficeOption, never null; the job whose homeOfficeOption
\* the dependency left out (the one titled TitleA) has homeOfficeOption=false
\* and a value the dependency gave (TitleB, true) is kept.
C12_HomeOfficeNeverNull ==
    InRun =>
        \A k \in 1..Len(RowsInFlight) :
            LET r == RowsInFlight[k]
            IN  r.hasJob =>
                  /\ r.homeOfficeOption \in {Some(TRUE), Some(FALSE)}
                  /\ r.name = Some(TitleA) => r.homeOfficeOption = Some(FALSE)
                  /\ r.name = Some(TitleB) => r.homeOfficeOption = Some(TRUE)

\* a finished run emitted the job for which the dependency left the field out
C12_Witness ==
    /\ InRun
    /\ pc = "done"
    /\ \E k \in 1..Len(rows) :
          /\ rows[k].hasJob
          /\ rows[k].name = Some(TitleA)
          /\ rows[k].homeOfficeOption = Some(FALSE)

\* C13: every hasJob=true row an entry returns has a foundOn that is a URL
\* (the source URL, or a URL the dependency gave), never a text label and
\* never null.
C13_FoundOnIsUrl ==
    (InRun /\ pc = "emit") =>
        \A k \in 1..Len(ret) : ret[k].hasJob => ret[k].foundOn[1] = "http"

\* ------------------------------------------------------------------------
\* Claims on the post-processing of one job dict
\* ------------------------------------------------------------------------
\* C19: both date fields of a found job reach the row as calendar dates: the
\* row's applicationDate is the date _parse_date gives for the raw
\* applicationDate, and its occupyStart is the date _parse_date gives for the
\* raw occupyStart (absent only for a null, empty or unparseable raw value).
C19_BothDatesReachTheRow ==
    (normalized # <<>> /\ raw_job[1].hasJob) =>
        /\ normalized[1].applicationDate = ParseDate(raw_job[1].applicationDate).value
        /\ normalized[1].occupyStart = ParseDate(raw_job[1].occupyStart).value

\* C20: the post-processing is idempotent: applied with the same found_on to
\* the fields of a row it built, it builds the same row.
C20_NormalizeIdempotent ==
    renormalized # <<>> => renormalized = normalized

\* ------------------------------------------------------------------------
\* Claims on failures of the dependency and on the order of emission
\* ------------------------------------------------------------------------
HasErrorRow(rs) == \E k \in 1..Len(rs) : ~rs[k].hasJob /\ rs[k].comments \in ErrorComments
\* the extraction of the main page failed and no source gave a job: the
\* accumulator of the incremental method before its final check, or the one
\* call of the batch method
MainExtractionFailed ==
    \/ mode = "incremental" /\ pc = "finish" /\ HasErrorRow(all_rows) /\ ~AnyHasJob(all_rows)
    \/ mode = "batch" /\ pc = "extract_done" /\ src = "combined" /\ failed # "none"

\* C17: when the dependency failed on the main page of an entry and no other
\* source gave a job, the hasJob=false row returned for the entry carries the
\* failure description in comments, not a generic text.
C17_ErrorDetailKept ==
    [][MainExtractionFailed => (pc' = "emit" /\ HasErrorRow(ret'))]_vars

\* C15: the entries are processed one at a time in input order and the emitted
\* rows are grouped by entry in that order: the rows emitted so far are rows of
\* the entries up to the current one, in non-decreasing order of entry, with at
\* least one row for every entry that is finished (also a failed one); the rows
\* in the hands of the per-entry method are rows of the current entry; and a
\* step changes the current entry only to the next one.
C15_StateOk ==
    /\ \A k \in 1..Len(rows) : rows[k].entry <= cur
    /\ \A k, l \in 1..Len(rows) : k < l => rows[k].entry <= rows[l].entry
    /\ \A i \in 1..NumEntries : i < cur => EntryRows(i) # <<>>
    /\ \A k \in 1..Len(ret) : ret[k].entry = cur
    /\ \A k \in 1..Len(all_rows) : all_rows[k].entry = cur
C15_StepOk ==
    /\ cur' \in {cur, cur + 1}
    /\ \A k \in (Len(rows) + 1)..Len(rows') : rows'[k].entry = cur
C15_EntriesInOrder == [](InRun => C15_StateOk) /\ [][InRun => C15_StepOk]_vars

\* the first entry failed with an exception, the second one gave two rows
C15_Witness ==
    /\ InRun
    /\ pc = "done"
    /\ rows[1].entry = 1
    /\ rows[1].comments = "Error processing: <e>"
    /\ Len(EntryRows(2)) >= 2

\* work of the generator for the current entry: the scrape of its main page,
\* a PDF extraction, a linked-page scrape, a call of the dependency
WorkStep ==
    \/ pc = "next_entry" /\ pc' \in {"extract_enter", "emit"}
    \/ n_llm' > n_llm
    \/ n_pdf' > n_pdf
    \/ n_fetch' > n_fetch

\* C16: in incremental mode the rows of entry i are all handed to the caller
\* before the main page of entry i+1 is scraped: rows are pending only between
\* the return of the per-entry method and the last yield, a step taken while
\* rows are pending hands exactly the next pending row to the caller and goes
\* on to the next entry only after the last one, and no scrape, PDF extraction
\* or call of the dependency is made while a row is pending or while a
\* finished entry has no row with the caller.
C16_StateOk ==
    /\ pc # "emit" => ret = <<>>
    /\ pc = "emit" => ret # <<>>
C16_StepOk ==
    /\ ret # <<>> =>
          /\ rows' = Append(rows, Head(ret))
          /\ IF Len(ret) > 1
             THEN cur' = cur /\ ret' = Tail(ret) /\ pc' = "emit"
             ELSE cur' = cur + 1 /\ ret' = <<>> /\ pc' = "next_entry"
    /\ WorkStep =>
          /\ ret = <<>>
          /\ rows' = rows
          /\ \A i \in 1..NumEntries : i < cur => EntryRows(i) # <<>>
C16_HandoffBeforeNextFetch ==
    [](mode = "incremental" => C16_StateOk) /\ [][mode = "incremental" => C16_StepOk]_vars

\* the main page of the second entry has been scraped after the caller got
\* the two rows of the first one
C16_Witness ==
    /\ mode = "incremental"
    /\ cur = 2
    /\ pc = "extract_enter"
    /\ src = "main"
    /\ Len(EntryRows(1)) >= 2

\* ------------------------------------------------------------------------
\* Claims on the two modes
\* ------------------------------------------------------------------------
\* C14: for the same entry and the same answers of the scraper, the PDF
\* extractor and the dependency, the incremental method emits the same rows in
\* the same order as the batch method did.
C14_ModesAgree ==
    (mode = "incremental" /\ batch_ret # <<>> /\ pc \in {"emit", "handler"}) =>
        EmittedForEntry = batch_ret[1]

\* ---------------------------------------------------------------------------
\* C21: a disabled agent answers every input with exactly one record, whose
\* hasJob is false, and never invokes the extraction dependency: the call
\* never enters the chunk loop, no chunk is cut and no invocation is counted.
C21_DisabledReturnsOneRecord ==
    (~enabled /\ pc \in {"extract_loop", "extract_done"}) =>
        /\ pc = "extract_done"
        /\ Len(jobs_info_list) = 1
        /\ jobs_info_list[1].hasJob = FALSE
        /\ n_llm = 0
        /\ n_chunks = 0
        /\ last_kind = "none"

C21_Witness ==
    /\ pc = "extract_done"
    /\ ~enabled
    /\ jobs_info_list = <<DisabledSentinel>>
    /\ n_llm = 0

\* ---------------------------------------------------------------------------
\* C29: when the chunk loop of one source ends, the records returned are the
\* positive records collected in chunk order with every repetition of a
\* non-empty title (lowercased, trimmed) removed: each such title occurs
\* exactly once, as its first occurrence; every positive record with an empty
\* or absent title is returned; the records returned keep their order.
C29_Title(r) == Strip(Lower(IF r.name = None THEN <<>> ELSE r.name[1]))
C29_Kept(P) ==
    {i \in 1..Len(P) :
        \/ C29_Title(P[i]) = <<>>
        \/ \A j \in 1..(i - 1) : C29_Title(P[j]) # C29_Title(P[i])}
C29_Nth(K, k) == CHOOSE i \in K : Cardinality({j \in K : j <= i}) = k
C29_StepOk ==
    LET P == SelectSeq(all_jobs, IsJob)
        O == jobs_info_list'
    IN  (pc = "extract_loop" /\ pc' = "extract_done" /\ failed' = "none" /\ P # <<>>) =>
          /\ \A i \in 1..Len(P) :
                C29_Title(P[i]) # <<>> =>
                  Cardinality({k \in 1..Len(O) : C29_Title(O[k]) = C29_Title(P[i])}) = 1
          /\ Cardinality({k \in 1..Len(O) : C29_Title(O[k]) = <<>>})
               = Cardinality({i \in 1..Len(P) : C29_Title(P[i]) = <<>>})
          /\ Len(O) = Cardinality(C29_Kept(P))
          /\ \A k \in 1..Len(O) : O[k] = P[C29_Nth(C29_Kept(P), k)]
C29_DedupKeepsFirstOfEachTitle == [][C29_StepOk]_vars

\* two chunks returned four records, of which the title 'a ' (first), a
\* nameless record and the title 'B' are what the call returns
C29_Witness ==
    /\ pc = "extract_done"
    /\ failed = "none"
    /\ n_chunks = 2
    /\ budget = MaxChunks * MaxJobsPerChunk - 4
    /\ Len(jobs_info_list) = 3
    /\ jobs_info_list[1].name = Some(TitleA2)
    /\ jobs_info_list[2].name = None
    /\ jobs_info_list[3].name = Some(TitleB)

\* ---------------------------------------------------------------------------
\* C30: _chunk_content terminates for every text and every max_length >= 1:
\* each loop iteration emits a non-empty segment and strictly advances the
\* scan position, and a break found exactly at the window start is not used
\* as a cut.  The count of segments is at most len(text), except that a text
\* no longer than max_length, the empty text included, is returned whole as
\* one segment: at most max(1, len(text)) segments.
C30_IterationOk ==
    (chunk_pc = "loop" /\ chunks' # chunks) =>
        /\ Len(chunks') = Len(chunks) + 1
        /\ chunks'[Len(chunks')] # <<>>
        /\ current_pos' > current_pos
        /\ current_pos' <= current_pos + max_length
        /\ current_pos' < current_pos + max_length =>
              \/ SubSeq(content, current_pos' + 1, current_pos' + 2) = <<NL, NL>>
              \/ /\ SubSeq(content, current_pos', current_pos' + 1) = <<".", " ">>
                 /\ current_pos' > current_pos + 1
C30_ChunkingTerminates ==
    /\ [](Len(chunks) <= IF content = <<>> THEN 1 ELSE Len(content))
    /\ [][C30_IterationOk]_vars
    /\ <>(chunk_pc = "returned")

\* the statement with the bound len(text): the empty text gives one segment
C30_AtMostLenSegments == Len(chunks) <= Len(content)

\* a paragraph break sits at the window start of the second iteration, is
\* not taken, and the call has returned
C30_Witness ==
    /\ chunk_pc = "returned"
    /\ max_length = 2
    /\ Len(content) = 5
    /\ SubSeq(content, 2, 4) = <<NL, NL, NL>>
    /\ Len(chunks) >= 2

\* ---------------------------------------------------------------------------
\* C25: within one entry the incremental method steps in the order main-page
\* fetch, main-page extraction, then per selected PDF in link order its text
\* and its extraction, then per selected job link in link order its fetch and
\* its extraction, then the emission.  Every step moves strictly forward in
\* that order, an extraction call is given one source (never the combined
\* content), and the accumulated rows are in source order.
C25_Phase ==
    CASE pc = "next_entry" -> 0
      [] src = "main" -> 1
      [] pc = "pdf_loop" \/ src = "pdf" -> 2
      [] pc = "page_loop" \/ src = "page" -> 3
      [] pc = "finish" -> 4
      [] pc = "emit" -> 5
      [] OTHER -> 6
C25_Index ==
    IF C25_Phase = 2 THEN pdf_i ELSE IF C25_Phase = 3 THEN page_i ELSE 0
C25_Sub ==
    CASE pc = "extract_enter" -> 1
      [] pc = "extract_loop" -> 2 + chunk_idx
      [] pc = "extract_done" -> 3 + MaxChunks
      [] OTHER -> 0
C25_Rank == (C25_Phase * (MaxLinks + 1) + C25_Index) * (MaxChunks + 4) + C25_Sub
C25_SourceRank(f) ==
    CASE f = MainLabel -> 0
      [] f[1] = "PDF: " -> f[2]
      [] f[1] = "Page: " -> MaxLinks + f[2]
      [] OTHER -> 3 * MaxLinks
C25_CurrentLabel ==
    CASE src = "main" -> MainLabel
      [] src = "pdf" -> PdfLabel(pdf_i + 1)
      [] OTHER -> PageLabel(page_i + 1)
C25_StateOk ==
    /\ pc \in {"extract_enter", "extract_loop", "extract_done"} =>
          src \in {"main", "pdf", "page"}
    /\ C25_Phase = 2 => page_i = 0
    /\ C25_Phase \in {0, 1} => pdf_i = 0 /\ page_i = 0
    /\ \A i, j \in 1..Len(all_rows) :
          i < j => /\ C25_SourceRank(all_rows[i].foundOn) <= C25_SourceRank(all_rows[j].foundOn)
                   /\ C25_SourceRank(all_rows[j].foundOn) < 3 * MaxLinks
C25_StepOk ==
    (cur' = cur /\ pc # "emit") =>
        /\ C25_Rank' > C25_Rank
        /\ pdf_i' \in {pdf_i, pdf_i + 1}
        /\ page_i' \in {page_i, page_i + 1}
        /\ all_rows' # all_rows =>
              /\ pc = "extract_done"
              /\ Len(all_rows') > Len(all_rows)
              /\ SubSeq(all_rows', 1, Len(all_rows)) = all_rows
              /\ \A i \in (Len(all_rows) + 1)..Len(all_rows') :
                    all_rows'[i].foundOn = C25_CurrentLabel
C25_StepsInSourceOrder ==
    /\ [](mode = "incremental" => C25_StateOk)
    /\ [][mode = "incremental" => C25_StepOk]_vars

\* an entry with a PDF and a job link is about to be emitted with rows of the
\* main page, the PDF and the linked page, in that order
C25_Witness ==
    /\ mode = "incremental"
    /\ pc = "emit"
    /\ Len(all_rows) = 3
    /\ all_rows[1].foundOn = MainLabel
    /\ all_rows[2].foundOn = PdfLabel(1)
    /\ all_rows[3].foundOn = PageLabel(1)
    /\ n_llm = 3

\* ---------------------------------------------------------------------------
\* C26: the incremental method probes only the first 2 pdf links of the main
\* page, in link order.  A probed PDF without text adds no row and causes no
\* call of the dependency, and the loop moves to the next selected link
\* without taking a later pdf link in its place: at most 2 probes per entry.
C26_NumPdfLinks == Len(SelectSeq(links, IsPdf))
C26_StateOk ==
    /\ n_pdf <= IncrementalPdfCap
    /\ n_pdf <= C26_NumPdfLinks
    /\ pc = "pdf_loop" => n_pdf = pdf_i /\ pdf_i < C26_NumPdfLinks
    /\ src = "pdf" => n_pdf = pdf_i + 1
    /\ pc \in {"finish", "emit"} /\ ~fetch_failed =>
          n_pdf = Min2(IncrementalPdfCap, C26_NumPdfLinks)
C26_StepOk ==
    /\ n_pdf' # n_pdf /\ cur' = cur => pc = "pdf_loop" /\ n_pdf' = n_pdf + 1
    /\ (pc = "pdf_loop" /\ pc' # "extract_enter") =>
          /\ all_rows' = all_rows
          /\ n_llm' = n_llm
          /\ pdf_i' = pdf_i + 1
C26_AtMostTwoPdfsProbed ==
    /\ [](mode = "incremental" => C26_StateOk)
    /\ [][mode = "incremental" => C26_StepOk]_vars

\* three pdf links, the first without text, the second extracted, the third
\* never probed
C26_Witness ==
    /\ mode = "incremental"
    /\ pc = "emit"
    /\ C26_NumPdfLinks = 3
    /\ n_pdf = 2
    /\ n_llm = 2
    /\ Len(all_rows) = 2
    /\ all_rows[2].foundOn = PdfLabel(2)

\* ---------------------------------------------------------------------------
\* C27: in incremental mode a linked page is fetched only if its link is of
\* the webpage kind and its URL or its title contains a job-related keyword,
\* whatever the case of the letters; the links fetched are the first 2 such
\* links in link order; a fetch that fails moves on to the next selected
\* link, so every selected link is fetched.
C27_Fold(s) == [i \in 1..Len(s) |-> LowerChar(s[i])]
C27_HasKeyword(s) ==
    \E kw \in job_related_keywords :
        \E i \in 1..Len(s) :
            /\ i + Len(kw) - 1 <= Len(s)
            /\ \A d \in 1..Len(kw) : C27_Fold(s)[i + d - 1] = kw[d]
C27_Eligible(l) ==
    /\ l.link_type = "webpage"
    /\ \/ C27_HasKeyword(l.url)
       \/ l.title # None /\ C27_HasKeyword(l.title[1])
C27_Selected == Take(SelectSeq(links, C27_Eligible), 2)
C27_StateOk ==
    /\ JobLinks(links, mode) = C27_Selected
    /\ n_fetch <= Len(C27_Selected)
    /\ pc = "page_loop" => n_fetch = page_i /\ page_i < Len(C27_Selected)
    /\ src = "page" => n_fetch = page_i + 1
    /\ pc \in {"finish", "emit"} /\ ~fetch_failed => n_fetch = Len(C27_Selected)
C27_StepOk ==
    /\ n_fetch' # n_fetch /\ cur' = cur => pc = "page_loop" /\ n_fetch' = n_fetch + 1
    /\ (pc = "page_loop" /\ pc' # "extract_enter") =>
          /\ page_i' = page_i + 1
          /\ pc' = IF page_i + 1 < Len(C27_Selected) THEN "page_loop" ELSE "finish"
          /\ all_rows' = all_rows
C27_JobLinksFetched ==
    /\ [](mode = "incremental" => C27_StateOk)
    /\ [][mode = "incremental" => C27_StepOk]_vars

\* the links 'JOBS' (title) and '/Stelle' (URL) are selected, the unrelated
\* one is not; the fetch of the first failed, the second was fetched and
\* extracted
C27_Witness ==
    /\ mode = "incremental"
    /\ pc = "emit"
    /\ Len(links) = 3
    /\ Len(C27_Selected) = 2
    /\ C27_Selected[1].title = Some(<<"J", "O", "B", "S">>)
    /\ C27_Selected[2].title = None
    /\ n_fetch = 2
    /\ n_llm = 2
    /\ Len(all_rows) = 2
    /\ all_rows[2].foundOn = PageLabel(2)

\* ---------------------------------------------------------------------------
\* C28: a failure while a PDF or a linked page is processed leaves all_rows as
\* it was: the failing source adds no row, and the rows of earlier sources
\* stay.  The failures are a PDF without text or a scrape that raises, an
\* extraction that ends in an except branch, and a TableRow that raises.
C28_SourceFailed ==
    \/ pc \in {"pdf_loop", "page_loop"} /\ pc' # "extract_enter"
    \/ /\ pc = "extract_done"
       /\ src \in {"pdf", "page"}
       /\ \/ failed # "none"
          \/ ~AllAccepted(SelectSeq(jobs_info_list, IsJob))
C28_StepOk ==
    (mode = "incremental" /\ cur' = cur /\ C28_SourceFailed) => all_rows' = all_rows
C28_FailingSourceAddsNothing == [][C28_StepOk]_vars

\* ---------------------------------------------------------------------------
\* C22: the records of a response do not depend on its wrapping: one JSON
\* object gives the records of the one-element array holding it, and a payload
\* between code fences gives the records of the payload alone.
C22_WrappingDoesNotMatter ==
    parse_result # <<>> =>
        /\ \A o \in JsonObjects :
              response_text = <<o>> => parse_result[1] = ResponseRecords(<<"[", o, "]">>)
        /\ \A pre \in Prefaces, open \in FenceOpens, p \in Payloads, close \in FenceCloses :
              response_text = Fenced(pre, open, p, close, <<>>) =>
                  parse_result[1] = ResponseRecords(p)

\* ---------------------------------------------------------------------------
\* C23: the last-call timestamp of the agent is set to the current time after
\* every invocation of the dependency, whether it succeeds or fails, and
\* never decreases: it is the time of the most recent invocation.
C23_StepOk ==
    /\ n_llm' = n_llm + 1 => last_api_call_time' = clock'
    /\ last_api_call_time' >= last_api_call_time
C23_TimestampFollowsInvocations == [][C23_StepOk]_vars

\* ---------------------------------------------------------------------------
\* C24: the agent is initialized once, at startup, and every /jobs run uses
\* it: the JobProcessor of a run accepts the injected agent and initializes
\* no other, so after any number of runs there has been one initialization.
C24_OneAgentForAllRuns ==
    /\ app_pc = "idle" => agent_inits = 1
    /\ n_runs > 0 => ctor = "ok"

====
